---- MODULE Spec2Model ----
(***************************************************************************)
(* BMAD pipeline: the project record (bmad_projects), the service layer    *)
(* (services.py, ProjectService), the PATCH/POST endpoints of main.py that *)
(* write the record with raw SQL, and the agents the service calls.        *)
(*                                                                         *)
(* Every statement of the program addresses one row (WHERE id = :id), so   *)
(* the model follows one project id.  Each request runs in its own         *)
(* AsyncSession (database.py get_db), so an ORM instance lives for one     *)
(* operation only; an operation is one atomic action, from get_project to  *)
(* commit/rollback.  The columns name, description, data_model and the     *)
(* timestamps are never read by a decision of the code and are left out.   *)
(*                                                                         *)
(* Spec is the application: the operations a client reaches through        *)
(* main.py and services.py.  SpecProviders applies AIProviderFactory and   *)
(* the agents' _call_ai_service to inputs drawn from bounded sets, and     *)
(* SpecGen applies FullStackDeveloperAgent.generate_project, one provider  *)
(* call (one await) per step.  SpecParse applies the JSON parsing of each   *)
(* agent to provider answers drawn from a bounded set of texts.  SpecAsync  *)
(* runs several requests as coroutines of the one event loop, one step per *)
(* stretch of code between two awaits.                                     *)
(***************************************************************************)
EXTENDS Integers, Sequences, FiniteSets, TLC

VARIABLES bmad_projects,  \* the table: project id -> row
          lastCall,       \* the last operation: its name, outcome and effects
          registry,       \* AIProviderFactory._providers, in insertion order
          call,           \* the last factory or _call_ai_service invocation
          gen,            \* a run of FullStackDeveloperAgent.generate_project
          parse,          \* the last provider answer an agent parsed as JSON
          loop            \* the event loop: the coroutines of the requests

vars == <<bmad_projects, lastCall, registry, call, gen, parse, loop>>

---------------------------------------------------------------------------
(* Python values *)

None == "<None>"
Unset == "<unset>"         \* a field left out of a request body
Raised == "<raised>"       \* a call that raised instead of returning

\* bool(x) for the str-or-None values of the model
Truthy(x) == x /= None /\ x /= ""

\* str.strip() on the texts of the model, whose only whitespace is " "
RECURSIVE LStrip(_), RStrip(_)
LStrip(t) ==
    IF Len(t) > 0 /\ SubSeq(t, 1, 1) = " "
    THEN LStrip(SubSeq(t, 2, Len(t))) ELSE t

RStrip(t) ==
    IF Len(t) > 0 /\ SubSeq(t, Len(t), Len(t)) = " "
    THEN RStrip(SubSeq(t, 1, Len(t) - 1)) ELSE t

Strip(t) == RStrip(LStrip(t))

\* str.find(ch) and str.rfind(ch), counted from 1: 0 when ch is not there
Find(t, ch) ==
    IF \E i \in 1..Len(t) : SubSeq(t, i, i) = ch
    THEN CHOOSE i \in 1..Len(t) :
            /\ SubSeq(t, i, i) = ch
            /\ \A j \in 1..(i - 1) : SubSeq(t, j, j) /= ch
    ELSE 0

RFind(t, ch) ==
    IF \E i \in 1..Len(t) : SubSeq(t, i, i) = ch
    THEN CHOOSE i \in 1..Len(t) :
            /\ SubSeq(t, i, i) = ch
            /\ \A j \in (i + 1)..Len(t) : SubSeq(t, j, j) /= ch
    ELSE 0

\* t[start:end] for the positions Find and RFind return: the characters
\* from the one at first to the one at last
Slice(t, first, last) == IF first > last THEN "" ELSE SubSeq(t, first, last)

---------------------------------------------------------------------------
(* Inputs *)

\* the project id the requests address
ProjectIds == {1}

\* requirements texts a client may send
ReqTexts == {"", " ", "web site", "mobile app"}

\* provider names a client may select; "cohere" has neither a row in
\* bmad_ai_providers nor an entry in AIProviderFactory._providers
ProviderNames == {"anthropic", "cohere"}

\* texts a provider's call_ai may return (None: OpenAI message.content)
ReplyTexts == {None, "", " ", "Design notes",
               "{\"sufficient\": false}", "[{\"id\":\"US-001\"}]"}

---------------------------------------------------------------------------
(* json *)

\* a tech-stack answer in the shape the prompt of _analyze_tech_stack asks
\* for
StackJson ==
    "{\"project_type\": \"web_app\", \"frontend\": {\"framework\": \"React.js\"}, \"backend\": {\"language\": \"Node.js\"}, \"deployment\": {\"containerization\": \"Docker\"}}"

\* tech-stack answers naming a backend language, or a frontend framework,
\* for which _generate_ai_source_files has no branch
GoStackJson ==
    "{\"project_type\": \"web_app\", \"frontend\": {\"framework\": \"React.js\"}, \"backend\": {\"language\": \"Go\"}, \"deployment\": {\"containerization\": \"Docker\"}}"

SvelteStackJson ==
    "{\"project_type\": \"web_app\", \"frontend\": {\"framework\": \"Svelte\"}, \"backend\": {\"language\": \"Node.js\"}, \"deployment\": {\"containerization\": \"None\"}}"

\* a tech-stack answer whose backend section names no language
ExpressStackJson ==
    "{\"project_type\": \"web_app\", \"frontend\": {\"framework\": \"React.js\"}, \"backend\": {\"framework\": \"Express\"}, \"deployment\": {\"containerization\": \"None\"}}"

\* a section of the tech stack that is there without the key read from it
NoKey == "<no key>"

\* the JSON documents among the texts of the model and their substrings
JsonDocs ==
    {"{\"sufficient\": false}", "{\"sufficient\": true}",
     "{\"sufficient\": null}", "[{\"id\":\"US-001\"}]", "{\"id\":\"US-001\"}",
     "{\"a\":1}", StackJson, GoStackJson, SvelteStackJson, ExpressStackJson}

\* json.loads: err is "TypeError" for None, "JSONDecodeError" for text that
\* is not a JSON document between optional whitespace, "" otherwise; doc is
\* the document parsed, type and sufficient describe its value
JsonLoads(t) ==
    IF t = None
    THEN [err |-> "TypeError", type |-> "", sufficient |-> "", doc |-> ""]
    ELSE IF Strip(t) \in JsonDocs
    THEN [err |-> "",
          type |-> IF SubSeq(Strip(t), 1, 1) = "{" THEN "object" ELSE "array",
          sufficient |-> IF Strip(t) = "{\"sufficient\": false}" THEN "false"
                         ELSE IF Strip(t) = "{\"sufficient\": true}" THEN "true"
                         ELSE IF Strip(t) = "{\"sufficient\": null}" THEN "null"
                         ELSE "absent",
          doc |-> Strip(t)]
    ELSE [err |-> "JSONDecodeError", type |-> "", sufficient |-> "", doc |-> ""]

\* whether the character at i of doc lies inside a string literal
InString(doc, i) ==
    Cardinality({j \in 1..(i - 1) : SubSeq(doc, j, j) = "\""}) % 2 = 1

\* what json.dumps writes for the character at i of a document: nothing for
\* whitespace outside strings, and the separators as ", " and ": "
DumpsChar(doc, i) ==
    LET c == SubSeq(doc, i, i) IN
    IF c = "\"" \/ InString(doc, i) THEN c
    ELSE IF c = " " THEN ""
    ELSE IF c \in {":", ","} THEN c \o " "
    ELSE c

\* json.dumps of the characters first..last of a document
RECURSIVE DumpsRange(_, _, _)
DumpsRange(doc, first, last) ==
    IF first > last THEN ""
    ELSE IF first = last THEN DumpsChar(doc, first)
    ELSE LET mid == (first + last) \div 2 IN
         DumpsRange(doc, first, mid) \o DumpsRange(doc, mid + 1, last)

\* json.dumps of a document
Dumps(doc) == DumpsRange(doc, 1, Len(doc))

\* json.dumps of a parsed value
JsonDumps(v) == Dumps(v.doc)

---------------------------------------------------------------------------
(* Provider configuration and registry *)

\* rows of bmad_ai_providers with is_active = true, as init_db inserts them
ActiveProviderConfigs == {"anthropic", "openai"}

\* AIProviderFactory._providers as the class body defines it; a dict keeps
\* its keys in insertion order
_providers ==
    <<[name |-> "anthropic", cls |-> "AnthropicProvider"],
      [name |-> "openai", cls |-> "OpenAIProvider"]>>

\* list(cls._providers.keys())
Keys(reg) == [i \in DOMAIN reg |-> reg[i].name]

\* provider_name in cls._providers
Registered(reg, name) == \E i \in DOMAIN reg : reg[i].name = name

\* cls._providers[provider_name]
Lookup(reg, name) == reg[CHOOSE i \in DOMAIN reg : reg[i].name = name].cls

\* cls._providers[name] = provider_class: a known key keeps its place
Put(reg, name, provider_class) ==
    IF Registered(reg, name)
    THEN [i \in DOMAIN reg |->
            IF reg[i].name = name
            THEN [name |-> name, cls |-> provider_class] ELSE reg[i]]
    ELSE Append(reg, [name |-> name, cls |-> provider_class])

\* objects a caller may pass as provider_class: the two providers of the
\* module, a subclass written as the module's example shows, the abstract
\* base itself, a class outside the hierarchy, and an object that is no class
ProviderClasses ==
    {"AnthropicProvider", "OpenAIProvider", "CohereProvider",
     "BaseAIProvider", "dict", "AnthropicProvider()"}

\* issubclass(provider_class, BaseAIProvider): TypeError for a non-class
IsSubclass(provider_class) ==
    CASE provider_class = "AnthropicProvider()" -> "TypeError"
      [] provider_class = "dict" -> "False"
      [] OTHER -> "True"

\* a class with an abstract method left cannot be instantiated
IsAbstract(provider_class) == provider_class = "BaseAIProvider"

\* register_provider that keeps the class a name already has
RegisterProvider_keeps_first(reg, name, provider_class) ==
    IF IsSubclass(provider_class) = "TypeError"
    THEN [raised |-> "TypeError", registry |-> reg]
    ELSE IF IsSubclass(provider_class) = "False"
    THEN [raised |-> "ValueError", registry |-> reg]
    ELSE [raised |-> "",
          registry |-> IF Registered(reg, name) THEN reg
                       ELSE Put(reg, name, provider_class)]

\* AIProviderFactory.register_provider: what it raises, and the registry
\* it leaves
RegisterProvider(reg, name, provider_class) ==
    IF IsSubclass(provider_class) = "TypeError"
    THEN [raised |-> "TypeError", registry |-> reg]
    ELSE IF IsSubclass(provider_class) = "False"
    THEN [raised |-> "ValueError", registry |-> reg]
    ELSE [raised |-> "", registry |-> Put(reg, name, provider_class)]

\* no provider object
NoInstance == [cls |-> "", api_key |-> ""]

\* AIProviderFactory.create_provider listing the providers of the class body
\* instead of the registered ones
CreateProvider_lists_builtin(reg, provider_name, api_key) ==
    IF ~Registered(reg, provider_name)
    THEN [raised |-> "ValueError", message |-> "Unsupported AI provider",
          supported |-> Keys(_providers), instance |-> NoInstance]
    ELSE IF IsAbstract(Lookup(reg, provider_name))
    THEN [raised |-> "TypeError", message |-> "Can't instantiate abstract class",
          supported |-> <<>>, instance |-> NoInstance]
    ELSE [raised |-> "", message |-> "", supported |-> <<>>,
          instance |-> [cls |-> Lookup(reg, provider_name), api_key |-> api_key]]

\* AIProviderFactory.create_provider: what it raises, or the instance
CreateProvider(reg, provider_name, api_key) ==
    IF ~Registered(reg, provider_name)
    THEN [raised |-> "ValueError", message |-> "Unsupported AI provider",
          supported |-> Keys(reg), instance |-> NoInstance]
    ELSE IF IsAbstract(Lookup(reg, provider_name))
    THEN [raised |-> "TypeError", message |-> "Can't instantiate abstract class",
          supported |-> <<>>, instance |-> NoInstance]
    ELSE [raised |-> "", message |-> "", supported |-> <<>>,
          instance |-> [cls |-> Lookup(reg, provider_name), api_key |-> api_key]]

\* what the vendor SDK may hand back to call_ai: Anthropic's text block is a
\* str, OpenAI's message.content is Optional[str]
SdkReplies(provider_class) ==
    IF provider_class = "OpenAIProvider" THEN ReplyTexts
    ELSE ReplyTexts \ {None}

\* call_ai of a provider: the SDK's text as it is, or RuntimeError
call_ai(instance, reply) == reply

\* the api_key column of a provider's row
ApiKeyOf(ai_provider) == <<"api_key", ai_provider>>

\* _call_ai_service building the provider before it looks at the
\* configuration row
CallAiService_constructs_first(active, reg, ai_provider, reply) ==
    LET created == CreateProvider(reg, ai_provider, ApiKeyOf(ai_provider)) IN
    IF created.raised /= ""
    THEN [value |-> Raised, error |-> created.message,
          constructed |-> FALSE, network |-> 0]
    ELSE IF ai_provider \notin active
    THEN [value |-> Raised, error |-> "not found or inactive",
          constructed |-> TRUE, network |-> 0]
    ELSE [value |-> call_ai(created.instance, reply),
          error |-> IF reply = Raised THEN "API call failed" ELSE "",
          constructed |-> TRUE, network |-> 1]

\* _call_ai_service(prompt, ai_provider, db_session) against a table whose
\* active rows are `active` and a factory holding reg; reply is what the
\* vendor would answer.  value is Raised when the call raises.
CallAiService(active, reg, ai_provider, reply) ==
    IF ai_provider \notin active
    THEN [value |-> Raised, error |-> "not found or inactive",
          constructed |-> FALSE, network |-> 0]
    ELSE LET created == CreateProvider(reg, ai_provider, ApiKeyOf(ai_provider)) IN
         IF created.raised /= ""
         THEN [value |-> Raised, error |-> created.message,
               constructed |-> FALSE, network |-> 0]
         ELSE [value |-> call_ai(created.instance, reply),
               error |-> IF reply = Raised THEN "API call failed" ELSE "",
               constructed |-> TRUE, network |-> 1]

\* what the vendor behind ai_provider may answer, Raised included
VendorReplies(reg, ai_provider) ==
    IF Registered(reg, ai_provider)
    THEN SdkReplies(Lookup(reg, ai_provider)) \cup {Raised}
    ELSE {Raised}

\* Outcomes of one _call_ai_service(prompt, ai_provider, db_session) of the
\* application: the table of init_db, the factory of the class body
CallOutcomes(ai_provider) ==
    {CallAiService(ActiveProviderConfigs, _providers, ai_provider, reply) :
        reply \in VendorReplies(_providers, ai_provider)}

\* a provider call that raised; one that returned the empty string
CallFailed(o) == o.value = Raised
CallEmpty(o) == o.value = ""

---------------------------------------------------------------------------
(* RequirementsAnalystAgent *)

\* _validate_requirements_ai answering False whenever it cannot use the
\* validation call's outcome
RA_sufficient_fail_closed(value) ==
    IF value = Raised THEN FALSE
    ELSE LET validation_result == JsonLoads(value) IN
         validation_result.err = "" /\ validation_result.sufficient = "true"

\* what _validate_requirements_ai makes of the validation call's outcome,
\* as "if not is_sufficient" of its caller reads it: the value under
\* "sufficient" is returned as it is, so null counts as False
RA_sufficient(value) ==
    IF value = Raised THEN TRUE
    ELSE LET validation_result == JsonLoads(value) IN
         IF validation_result.err /= "" THEN TRUE
         ELSE IF validation_result.type = "object"
                 /\ validation_result.sufficient /= "absent"
              THEN validation_result.sufficient = "true"
              ELSE TRUE

\* _validate_requirements_ai that tests "not requirements" only
RA_validate_requirements_ai_no_strip(requirements, ai_provider) ==
    IF ~Truthy(requirements)
    THEN {[sufficient |-> FALSE, network |-> 0, failed |-> FALSE,
           empty |-> FALSE]}
    ELSE {[sufficient |-> RA_sufficient(o.value), network |-> o.network,
           failed |-> CallFailed(o), empty |-> CallEmpty(o)] :
            o \in CallOutcomes(ai_provider)}

\* _validate_requirements_ai: the possible (is_sufficient, network calls)
RA_validate_requirements_ai(requirements, ai_provider) ==
    IF ~Truthy(requirements) \/ ~Truthy(Strip(requirements))
    THEN {[sufficient |-> FALSE, network |-> 0, failed |-> FALSE,
           empty |-> FALSE]}
    ELSE {[sufficient |-> RA_sufficient(o.value), network |-> o.network,
           failed |-> CallFailed(o), empty |-> CallEmpty(o)] :
            o \in CallOutcomes(ai_provider)}

\* _analyze_project_context, lines 264-268, on the outcome of its call:
\* raised is "" when a context was returned, raw is the text the error
\* message quotes
RA_project_context_response(o) ==
    IF o.value = Raised
    THEN [raised |-> "Failed to call AI service", raw |-> None, value |-> None]
    ELSE IF JsonLoads(o.value).err = "JSONDecodeError"
    THEN [raised |-> "AI context analysis did not return valid JSON",
          raw |-> o.value, value |-> None]
    ELSE IF JsonLoads(o.value).err = "TypeError"
    THEN [raised |-> "TypeError", raw |-> None, value |-> None]
    ELSE [raised |-> "", raw |-> None, value |-> JsonDumps(JsonLoads(o.value))]

\* _analyze_project_context: raised is "" when a context was returned
RA_analyze_project_context(requirements, ai_provider) ==
    UNION {
      IF ~v.sufficient
      THEN {[raised |-> "Requirements are insufficient for analysis",
             network |-> v.network, failed |-> v.failed, empty |-> v.empty]}
      ELSE {[raised |-> RA_project_context_response(o).raised,
             network |-> v.network + o.network,
             failed |-> v.failed \/ CallFailed(o),
             empty |-> v.empty \/ CallEmpty(o)] :
              o \in CallOutcomes(ai_provider)}
      : v \in RA_validate_requirements_ai(requirements, ai_provider)}

\* _generate_refined_requirements without its check of an empty response
RA_generate_refined_requirements_unchecked(o) ==
    IF o.value = Raised
    THEN [raised |-> "Failed to call AI service", value |-> None]
    ELSE [raised |-> "", value |-> o.value]

\* _generate_refined_requirements, on the outcome of its call
RA_generate_refined_requirements(o) ==
    IF o.value = Raised
    THEN [raised |-> "Failed to call AI service", value |-> None]
    ELSE IF ~Truthy(o.value) \/ ~Truthy(Strip(o.value))
    THEN [raised |-> "AI service returned empty response for refined requirements",
          value |-> None]
    ELSE [raised |-> "", value |-> o.value]

\* _generate_user_stories, on the outcome of its call; value is the parsed
\* JSON as the service stores it (json.dumps)
RA_generate_user_stories(o) ==
    IF o.value = Raised
    THEN [raised |-> "Failed to call AI service", raw |-> None, value |-> None]
    ELSE IF JsonLoads(o.value).err = "JSONDecodeError"
    THEN [raised |-> "AI response was not valid JSON", raw |-> o.value,
          value |-> None]
    ELSE IF JsonLoads(o.value).err = "TypeError"
    THEN [raised |-> "TypeError", raw |-> None, value |-> None]
    ELSE [raised |-> "", raw |-> None, value |-> JsonDumps(JsonLoads(o.value))]

\* RequirementsAnalystAgent.analyze_requirements: the possible results
RA_analyze_requirements(requirements, ai_provider) ==
    UNION {
      IF c.raised /= ""
      THEN {[raised |-> c.raised, refined_requirements |-> None,
             user_stories |-> None, network |-> c.network,
             failed |-> c.failed, empty |-> c.empty]}
      ELSE UNION {
        LET r == RA_generate_refined_requirements(o3) IN
        IF r.raised /= ""
        THEN {[raised |-> r.raised, refined_requirements |-> None,
               user_stories |-> None, network |-> c.network + o3.network,
               failed |-> c.failed \/ CallFailed(o3),
               empty |-> c.empty \/ CallEmpty(o3)]}
        ELSE {LET u == RA_generate_user_stories(o4) IN
              [raised |-> u.raised,
               refined_requirements |-> IF u.raised = "" THEN r.value ELSE None,
               user_stories |-> u.value,
               network |-> c.network + o3.network + o4.network,
               failed |-> c.failed \/ CallFailed(o3) \/ CallFailed(o4),
               empty |-> c.empty \/ CallEmpty(o3) \/ CallEmpty(o4)] :
                o4 \in CallOutcomes(ai_provider)}
        : o3 \in CallOutcomes(ai_provider)}
      : c \in RA_analyze_project_context(requirements, ai_provider)}

---------------------------------------------------------------------------
(* SoftwareArchitectAgent *)

\* the fallback document of _generate_system_architecture, with str(e)
FallbackArchitecture(error) ==
    IF error = "AI response was empty"
    THEN "# System Architecture (fallback). Error: AI response was empty"
    ELSE "# System Architecture (fallback). Error: Failed to call AI service"

\* _analyze_project_context, on the outcome of its call: every failure is
\* caught and answered with the built-in context
SA_analyze_project_context(o) ==
    IF o.value = Raised \/ ~Truthy(o.value) \/ JsonLoads(o.value).err /= ""
    THEN "fallback context"
    ELSE JsonDumps(JsonLoads(o.value))

\* _generate_system_architecture, on the outcome of its call: every failure
\* is caught and answered with the fallback document
SA_generate_system_architecture(o) ==
    IF o.value = Raised THEN FallbackArchitecture("Failed to call AI service")
    ELSE IF ~Truthy(o.value) THEN FallbackArchitecture("AI response was empty")
    ELSE o.value

\* SoftwareArchitectAgent.analyze_requirements: the possible results
SA_analyze_requirements(ai_provider) ==
    {[system_architecture |-> SA_generate_system_architecture(o2),
      project_context |-> SA_analyze_project_context(o1),
      network |-> o1.network + o2.network,
      failed |-> CallFailed(o1) \/ CallFailed(o2),
      empty |-> CallEmpty(o1) \/ CallEmpty(o2)] :
        o1 \in CallOutcomes(ai_provider), o2 \in CallOutcomes(ai_provider)}

---------------------------------------------------------------------------
(* UXDesignerAgent *)

\* parameters of UXDesignerAgent.analyze_requirements, none with a default
UX_analyze_requirements_params ==
    {"project_name", "requirements", "refined_requirements",
     "system_architecture", "application_type", "ai_provider", "db_session"}

\* UXDesignerAgent._call_ai_service, on the outcome of the provider call
UX_call_ai_service(o) ==
    IF o.value = Raised
    THEN [success |-> FALSE, response |-> None]
    ELSE [success |-> TRUE, response |-> o.value]

\* UXDesignerAgent.analyze_requirements, on the outcome of the provider call
UX_analyze_requirements(o) ==
    LET ai_service == UX_call_ai_service(o) IN
    IF ~ai_service.success
    THEN [success |-> FALSE, ux_design |-> None, network |-> o.network,
          failed |-> CallFailed(o), empty |-> CallEmpty(o)]
    ELSE [success |-> TRUE, ux_design |-> ai_service.response,
          network |-> o.network,
          failed |-> CallFailed(o), empty |-> CallEmpty(o)]

---------------------------------------------------------------------------
(* FullStackDeveloperAgent: the steps of generate_project up to the        *)
(* project directory, then the file generation it fans out to              *)

\* json.loads of a tech-stack answer, as far as the generation reads it:
\* the top-level type, the values under backend.language,
\* frontend.framework and deployment.containerization (Unset: no such
\* section, NoKey: the section is there without the key), and the document
\* they were loaded from
TechStackLoads(text) ==
    IF Strip(text) = StackJson
    THEN [type |-> "object", project_type |-> "web_app",
          backend |-> "Node.js", frontend |-> "React.js",
          containerization |-> "Docker", doc |-> StackJson]
    ELSE IF Strip(text) = GoStackJson
    THEN [type |-> "object", project_type |-> "web_app",
          backend |-> "Go", frontend |-> "React.js",
          containerization |-> "Docker", doc |-> GoStackJson]
    ELSE IF Strip(text) = SvelteStackJson
    THEN [type |-> "object", project_type |-> "web_app",
          backend |-> "Node.js", frontend |-> "Svelte",
          containerization |-> "None", doc |-> SvelteStackJson]
    ELSE IF Strip(text) = ExpressStackJson
    THEN [type |-> "object", project_type |-> "web_app",
          backend |-> NoKey, frontend |-> "React.js",
          containerization |-> "None", doc |-> ExpressStackJson]
    ELSE [type |-> JsonLoads(text).type, project_type |-> Unset,
          backend |-> Unset, frontend |-> Unset, containerization |-> Unset,
          doc |-> JsonLoads(text).doc]

\* the dict literal of _analyze_tech_stack, lines 163-182, as a document
FallbackStackJson ==
    "{\"project_type\": \"web_app\", \"frontend\": {\"framework\": \"HTML/CSS\"}, \"backend\": {\"language\": \"None\"}, \"deployment\": {\"containerization\": \"None\"}}"

\* the stack _analyze_tech_stack returns when the answer holds no JSON
FallbackTechStack ==
    [type |-> "object", project_type |-> "web_app",
     backend |-> "None", frontend |-> "HTML/CSS", containerization |-> "None",
     doc |-> FallbackStackJson]

\* _generate_data_model, on the outcome of its call
FS_generate_data_model(o) ==
    IF o.value = Raised \/ ~Truthy(o.value)
    THEN [raised |-> "Data model generation failed", value |-> None]
    ELSE [raised |-> "", value |-> o.value]

\* _analyze_tech_stack, lines 151-154: the text between the first "{" and
\* the last "}" of the answer, None when there is no "{" or no "}"
ExtractJsonContent(ai_response) ==
    LET start == Find(ai_response, "{")
        end == RFind(ai_response, "}") IN
    IF start /= 0 /\ end /= 0 THEN Slice(ai_response, start, end) ELSE None

\* _analyze_tech_stack, on the outcome of its call: text that is not JSON
\* and holds no JSON between its first "{" and last "}" is answered with the
\* built-in HTML/CSS stack
FS_analyze_tech_stack(o) ==
    IF o.value = Raised \/ ~Truthy(o.value)
    THEN [raised |-> "AI tech stack analysis failed", value |-> None]
    ELSE IF JsonLoads(o.value).err = ""
    THEN [raised |-> "", value |-> TechStackLoads(o.value)]
    ELSE LET json_content == ExtractJsonContent(o.value) IN
         IF json_content /= None /\ JsonLoads(json_content).err = ""
         THEN [raised |-> "", value |-> TechStackLoads(json_content)]
         ELSE [raised |-> "", value |-> FallbackTechStack]

\* _generate_project_structure: tech_stack.get needs a dict; the file it
\* writes is tech-stack.md
FS_generate_project_structure(tech_stack) ==
    IF tech_stack.type /= "object"
    THEN [raised |-> "AttributeError", files |-> 0]
    ELSE [raised |-> "", files |-> 1]

\* FullStackDeveloperAgent.generate_project as its caller sees it: success
\* is decided by the data model, the tech stack and the project directory,
\* since _generate_code and _generate_documentation catch every exception
FS_generate_project(ai_provider) ==
    UNION {
      LET d == FS_generate_data_model(o1) IN
      IF d.raised /= ""
      THEN {[success |-> FALSE, tech_stack |-> None, project_path |-> None,
             network |-> o1.network, files |-> 0]}
      ELSE {LET t == FS_analyze_tech_stack(o2)
                s == IF t.raised = "" THEN FS_generate_project_structure(t.value)
                     ELSE [raised |-> t.raised, files |-> 0] IN
            IF s.raised /= ""
            THEN [success |-> FALSE, tech_stack |-> None,
                  project_path |-> None,
                  network |-> o1.network + o2.network, files |-> 0]
            ELSE [success |-> TRUE, tech_stack |-> t.value,
                  project_path |-> "projects/1_project",
                  network |-> o1.network + o2.network, files |-> s.files] :
              o2 \in CallOutcomes(ai_provider)}
      : o1 \in CallOutcomes(ai_provider)}

\* one generation task: the file it writes, the method whose try block it
\* runs in (group), whether that method is _generate_static_pages called
\* from the group (sub), and whether the answer is stripped before writing
Task(file, group, sub, strip) ==
    [file |-> file, group |-> group, sub |-> sub, strip |-> strip]

\* _generate_ai_config_files: the files it goes through, in order
ConfigTasks(tech_stack) ==
    LET backend_lang == IF tech_stack.backend \in {Unset, NoKey} THEN "Node.js"
                        ELSE tech_stack.backend IN
    (IF backend_lang = "Node.js"
     THEN <<Task("package.json", "config", FALSE, FALSE)>>
     ELSE IF backend_lang = "Python"
     THEN <<Task("requirements.txt", "config", FALSE, FALSE)>>
     ELSE <<>>)
    \o (IF tech_stack.containerization = "Docker"
        THEN <<Task("Dockerfile", "config", FALSE, FALSE)>> ELSE <<>>)
    \o <<Task(".gitignore", "config", FALSE, FALSE)>>

\* _generate_ai_source_files leaving through its except branch, with no
\* file, for a backend language it has no branch for
SourceTasks_unknown_backend_aborts(tech_stack) ==
    LET backend_lang == IF tech_stack.backend = Unset THEN "None"
                        ELSE IF tech_stack.backend = NoKey THEN "Node.js"
                        ELSE tech_stack.backend
        frontend_framework == IF tech_stack.frontend = Unset THEN "HTML/CSS"
                              ELSE IF tech_stack.frontend = NoKey THEN "React.js"
                              ELSE tech_stack.frontend
    IN
    IF backend_lang \notin {"Node.js", "Python", "None"} THEN <<>>
    ELSE
    (IF backend_lang = "Node.js"
     THEN <<Task("server.js", "nodejs_backend", FALSE, FALSE),
            Task(".env.example", "nodejs_backend", FALSE, FALSE)>>
     ELSE IF backend_lang = "Python"
     THEN <<Task("main.py", "python_backend", FALSE, FALSE)>>
     ELSE <<>>)
    \o (IF frontend_framework = "React.js"
        THEN <<Task("frontend/src/App.js", "react_frontend", FALSE, FALSE),
               Task("frontend/package.json", "react_frontend", FALSE, FALSE)>>
        ELSE <<>>)

\* _generate_ai_source_files: the backend method it calls, then the
\* frontend one; _generate_html_site ends with _generate_static_pages, which
\* writes index.html and, for an index without links, about and contact
SourceTasks(tech_stack) ==
    LET backend_lang == IF tech_stack.backend = Unset THEN "None"
                        ELSE IF tech_stack.backend = NoKey THEN "Node.js"
                        ELSE tech_stack.backend
        frontend_framework == IF tech_stack.frontend = Unset THEN "HTML/CSS"
                              ELSE IF tech_stack.frontend = NoKey THEN "React.js"
                              ELSE tech_stack.frontend
    IN
    (IF backend_lang = "Node.js"
     THEN <<Task("server.js", "nodejs_backend", FALSE, FALSE),
            Task(".env.example", "nodejs_backend", FALSE, FALSE)>>
     ELSE IF backend_lang = "Python"
     THEN <<Task("main.py", "python_backend", FALSE, FALSE)>>
     ELSE <<>>)
    \o (IF frontend_framework = "React.js"
        THEN <<Task("frontend/src/App.js", "react_frontend", FALSE, FALSE),
               Task("frontend/package.json", "react_frontend", FALSE, FALSE)>>
        ELSE IF frontend_framework = "Vue.js"
        THEN <<Task("frontend/main.js", "vue_frontend", FALSE, FALSE)>>
        ELSE IF frontend_framework \in {"HTML/CSS", "HTML"}
        THEN <<Task("css/style.css", "html_site", FALSE, TRUE),
               Task("js/main.js", "html_site", FALSE, TRUE),
               Task("index.html", "html_site", TRUE, TRUE),
               Task("about.html", "html_site", TRUE, TRUE),
               Task("contact.html", "html_site", TRUE, TRUE)>>
        ELSE <<>>)

\* the tasks _generate_ai_driven_project goes through for a tech stack
PlannedTasks(tech_stack) == ConfigTasks(tech_stack) \o SourceTasks(tech_stack)

\* the files of a sequence of tasks
FilesOf(tasks) == {tasks[i].file : i \in DOMAIN tasks}

\* one task on the outcome of its call: write_text needs a str, and strip
\* needs one too; content is what lands in the file
RunTask(task, o) ==
    IF o.value = Raised \/ o.value = None
    THEN [raised |-> TRUE, content |-> None]
    ELSE [raised |-> FALSE,
          content |-> IF task.strip THEN Strip(o.value) ELSE o.value]

\* what a file of the project directory holds, as far as anyone looks: the
\* empty string, or text
FileContent(content) == IF content = "" THEN "" ELSE "text"

\* the project directory with one more file written
WriteText(disk, file, content) ==
    [f \in DOMAIN disk \cup {file} |->
        IF f = file THEN FileContent(content) ELSE disk[f]]

\* the tasks left when the method running task has returned from its
\* except branch: the rest of _generate_static_pages, or the rest of the
\* group with the pages it would have called
RECURSIVE SkipFailed(_, _)
SkipFailed(todo, task) ==
    IF todo = <<>> THEN <<>>
    ELSE IF /\ Head(todo).group = task.group
            /\ (task.sub => Head(todo).sub)
         THEN SkipFailed(Tail(todo), task)
         ELSE todo

\* re.findall(r'href=["\']([^"\']*\.html)["\']', index_response) of
\* _generate_static_pages: a match starts at an href= followed by a quote;
\* the group runs to the next quote and has to end in .html
IsQuote(c) == c = "\"" \/ c = "'"

HrefAt(t, i) ==
    /\ i + 5 <= Len(t)
    /\ SubSeq(t, i, i + 4) = "href="
    /\ IsQuote(SubSeq(t, i + 5, i + 5))

\* the position of the first quote after the one that opens the value of
\* the href at i, 0 when there is none
ClosingQuote(t, i) ==
    LET quotes == {j \in (i + 6)..Len(t) : IsQuote(SubSeq(t, j, j))} IN
    IF quotes = {} THEN 0
    ELSE CHOOSE j \in quotes : \A k \in quotes : j <= k

\* the positions at which the pattern matches
LinkStarts(t) ==
    {i \in 1..Len(t) :
        /\ HrefAt(t, i)
        /\ ClosingQuote(t, i) >= i + 11
        /\ SubSeq(t, ClosingQuote(t, i) - 5, ClosingQuote(t, i) - 1) = ".html"}

\* the groups of the matches at the positions starts, from left to right
RECURSIVE LinksAt(_, _)
LinksAt(t, starts) ==
    IF starts = {} THEN <<>>
    ELSE LET i == CHOOSE j \in starts : \A k \in starts : j <= k IN
         <<SubSeq(t, i + 6, ClosingQuote(t, i) - 1)>>
            \o LinksAt(t, starts \ {i})

\* nav_links of _generate_static_pages, the self-reference removed
NavLinks(index_response) ==
    SelectSeq(LinksAt(index_response, LinkStarts(index_response)),
              LAMBDA link : link /= "index.html")

\* the pages _generate_static_pages goes through after index.html: one for
\* each entry of nav_links, about and contact when there is none
PageTasks(index_response, group) ==
    LET nav_links == NavLinks(index_response) IN
    IF nav_links = <<>>
    THEN <<Task("about.html", group, TRUE, TRUE),
           Task("contact.html", group, TRUE, TRUE)>>
    ELSE [k \in DOMAIN nav_links |-> Task(nav_links[k], group, TRUE, TRUE)]

\* the task of _generate_static_pages that writes index.html
IsIndex(task) == task.sub /\ task.file = "index.html"

\* a task list with the pages after index.html replaced by those the
\* index answer asks for
WithPages(tasks, index_response, group) ==
    SelectSeq(tasks, LAMBDA t : ~(t.sub /\ t.file /= "index.html"))
        \o PageTasks(index_response, group)

\* the first call of _generate_ai_driven_project, for the folders: a
\* failed call, and an answer json.loads or the folder loop cannot take
\* other than by JSONDecodeError, leave through the outer except
FS_folder_structure(o) ==
    IF o.value = Raised THEN "raised"
    ELSE IF JsonLoads(o.value).err = "TypeError" THEN "raised"
    ELSE IF JsonLoads(o.value).err = "JSONDecodeError" THEN "fallback folders"
    ELSE IF JsonLoads(o.value).type = "array" THEN "raised"
    ELSE "folders"

---------------------------------------------------------------------------
(* The project record and its ORM mapping *)

\* columns of bmad_projects: those of models.py Project, and the two that
\* only database.py init_db adds and main.py reads back
Columns ==
    {"name", "description", "requirements", "refined_requirements",
     "user_stories", "system_architecture", "status", "archived",
     "ai_provider", "ux_design", "tech_stack"}

\* the columns class Project maps
MappedColumns ==
    {"name", "description", "requirements", "refined_requirements",
     "user_stories", "system_architecture", "status", "archived",
     "ai_provider"}

\* an INSERT that fills refined_requirements with the requirements sent
NewRow_copies_requirements(requirements, ai_provider) ==
    [c \in Columns |->
        CASE c \in {"requirements", "refined_requirements"} -> requirements
          [] c = "status" -> "draft"
          [] c = "ai_provider" -> ai_provider
          [] c = "name" -> "shop"
          [] c = "archived" -> "false"
          [] OTHER -> None]

\* the row both create_project operations insert
NewRow(requirements, ai_provider) ==
    [c \in Columns |->
        CASE c = "requirements" -> requirements
          [] c = "status" -> "draft"
          [] c = "ai_provider" -> ai_provider
          [] c = "name" -> "shop"
          [] c = "archived" -> "false"
          [] OTHER -> None]

\* get_project: the instance a fresh session loads from the row
Load(row) == [c \in MappedColumns |-> row[c]]

\* project.<attr> = value: a mapped column or a plain instance attribute
SetAttr(project, attr, value) ==
    [a \in DOMAIN project \cup {attr} |-> IF a = attr THEN value ELSE project[a]]

\* project.<attr> raises AttributeError unless the attribute exists
HasAttr(project, attr) == attr \in DOMAIN project

\* db.commit(): the UPDATE writes the mapped columns of the instance
Flush(row, project) ==
    [c \in Columns |-> IF c \in MappedColumns THEN project[c] ELSE row[c]]

\* what an operation reports; failed and empty tell whether a provider
\* call of the operation raised, or returned the empty string, and again
\* whether the operation before it was a successful run of the same one
Report(op, outcome, error, network, files, offered) ==
    [op |-> op, outcome |-> outcome, error |-> error, network |-> network,
     files |-> files, offered |-> offered, failed |-> FALSE, empty |-> FALSE,
     again |-> FALSE]

\* the report of an operation whose agent made the calls of result
WithCalls(report, result) ==
    [report EXCEPT !.failed = result.failed, !.empty = result.empty]

---------------------------------------------------------------------------
(* ProjectService *)

\* the assignments of analyze_requirements without the clearing of
\* system_architecture
AnalyzeRequirementsAssign_keeps_architecture(project, result) ==
    LET p1 == SetAttr(project, "refined_requirements", result.refined_requirements)
        p2 == SetAttr(p1, "user_stories", result.user_stories)
        p3 == SetAttr(p2, "status", "Requirements Complete")
    IN  SetAttr(p3, "ux_design", None)

\* analyze_requirements, lines 126-133: the assignments after the agent
\* returned
AnalyzeRequirementsAssign(project, result) ==
    LET p1 == SetAttr(project, "refined_requirements", result.refined_requirements)
        p2 == SetAttr(p1, "user_stories", result.user_stories)
        p3 == SetAttr(p2, "status", "Requirements Complete")
        p4 == SetAttr(p3, "system_architecture", None)
    IN  SetAttr(p4, "ux_design", None)

\* analyze_requirements whose except branch does not roll back: a commit
\* that raised leaves the flushed assignments in the row
AnalyzeRequirementsOutcome_no_rollback(row, result, commit_ok) ==
    IF result.raised /= ""
    THEN [row |-> row,
          report |-> Report("analyze_requirements", "failure",
                            "Analysis failed", result.network, 0, None)]
    ELSE [row |-> Flush(row, AnalyzeRequirementsAssign(Load(row), result)),
          report |-> Report("analyze_requirements",
                            IF commit_ok THEN "success" ELSE "failure",
                            IF commit_ok THEN "" ELSE "Analysis failed",
                            result.network, 0, None)]

\* analyze_requirements on a found project: the row it leaves and its report
AnalyzeRequirementsOutcome(row, result, commit_ok) ==
    IF result.raised /= ""
    THEN [row |-> row,
          report |-> Report("analyze_requirements", "failure",
                            "Analysis failed", result.network, 0, None)]
    ELSE IF ~commit_ok
    THEN [row |-> row,
          report |-> Report("analyze_requirements", "failure",
                            "Analysis failed", result.network, 0, None)]
    ELSE [row |-> Flush(row, AnalyzeRequirementsAssign(Load(row), result)),
          report |-> Report("analyze_requirements", "success", "",
                            result.network, 0, None)]

\* generate_system_architecture setting the stage that follows the current
\* one
GenerateSystemArchitectureAssign_next_stage(project, architecture_result) ==
    LET p1 == SetAttr(project, "system_architecture",
                      architecture_result.system_architecture)
        p2 == SetAttr(p1, "status",
                      IF project["status"] = "System Architecture Complete"
                      THEN "UX Design Complete"
                      ELSE "System Architecture Complete")
    IN  SetAttr(p2, "ux_design", None)

\* generate_system_architecture, lines 205-210
GenerateSystemArchitectureAssign(project, architecture_result) ==
    LET p1 == SetAttr(project, "system_architecture",
                      architecture_result.system_architecture)
        p2 == SetAttr(p1, "status", "System Architecture Complete")
    IN  SetAttr(p2, "ux_design", None)

\* generate_system_architecture on a found project
GenerateSystemArchitectureOutcome(row, architecture_result, commit_ok) ==
    IF ~commit_ok
    THEN [row |-> row,
          report |-> Report("generate_system_architecture", "failure",
                            "Error generating system architecture",
                            architecture_result.network, 0, None)]
    ELSE [row |-> Flush(row, GenerateSystemArchitectureAssign(Load(row),
                                                              architecture_result)),
          report |-> Report("generate_system_architecture", "success", "",
                            architecture_result.network, 0, None)]

\* the keyword arguments generate_ux_design passes to the agent
GenerateUxDesignKwargs ==
    {"project_name", "requirements", "refined_requirements",
     "system_architecture", "ai_provider", "db_session"}

\* generate_ux_design, lines 171-173
GenerateUxDesignAssign(project, design_result) ==
    SetAttr(SetAttr(project, "ux_design", design_result.ux_design),
            "status", "UX Design Complete")

\* generate_ux_design on a found project; o is what the provider call of
\* the agent would come to.  A call that leaves a parameter without a
\* default unbound raises TypeError before the agent runs.
GenerateUxDesignOutcome(row, o, commit_ok) ==
    IF ~(UX_analyze_requirements_params \subseteq GenerateUxDesignKwargs)
    THEN [row |-> row,
          report |-> Report("generate_ux_design", "failure",
                            "Error generating UX design", 0, 0, o.value)]
    ELSE LET design_result == UX_analyze_requirements(o) IN
         IF ~design_result.success
         THEN [row |-> row,
               report |-> WithCalls(Report("generate_ux_design", "failure",
                                           "UX/UI design generation failed",
                                           design_result.network, 0, o.value),
                                    design_result)]
         ELSE IF ~commit_ok
         THEN [row |-> row,
               report |-> WithCalls(Report("generate_ux_design", "failure",
                                           "Error generating UX design",
                                           design_result.network, 0, o.value),
                                    design_result)]
         ELSE [row |-> Flush(row, GenerateUxDesignAssign(Load(row), design_result)),
               report |-> WithCalls(Report("generate_ux_design", "success", "",
                                           design_result.network, 0, o.value),
                                    design_result)]

\* generate_project, lines 232-238: "" when every prerequisite is there,
\* else the error returned, or the exception raised by reading an attribute
\* the instance does not have
GenerateProjectPrerequisites(project) ==
    IF ~Truthy(project["refined_requirements"])
    THEN "Requirements analysis must be completed first"
    ELSE IF ~Truthy(project["system_architecture"])
    THEN "System architecture must be completed first"
    ELSE IF ~HasAttr(project, "ux_design") THEN "AttributeError"
    ELSE IF ~Truthy(project["ux_design"])
    THEN "UX/UI design must be completed first"
    ELSE ""

\* generate_project on a found project; project_result is what the agent
\* would return
GenerateProjectOutcome(row, project_result, commit_ok) ==
    LET project == Load(row)
        missing == GenerateProjectPrerequisites(project) IN
    IF missing = "AttributeError"
    THEN [row |-> row,
          report |-> Report("generate_project", "raised", missing, 0, 0, None)]
    ELSE IF missing /= ""
    THEN [row |-> row,
          report |-> Report("generate_project", "failure", missing, 0, 0, None)]
    ELSE IF ~project_result.success
    THEN [row |-> row,
          report |-> Report("generate_project", "failure",
                            "Failed to generate project",
                            project_result.network, project_result.files, None)]
    ELSE IF ~commit_ok
    THEN [row |-> row,
          report |-> Report("generate_project", "failure",
                            "Error generating project",
                            project_result.network, project_result.files, None)]
    ELSE [row |-> Flush(row, SetAttr(project, "status", "Project Generated")),
          report |-> Report("generate_project", "success", "",
                            project_result.network, project_result.files, None)]

\* archive_project that also sends the project back to draft
ArchiveProjectAssign_resets_status(project, archived) ==
    SetAttr(SetAttr(project, "archived", archived), "status", "draft")

\* archive_project, line 105
ArchiveProjectAssign(project, archived) ==
    SetAttr(project, "archived", archived)

\* archive_project on a found project
ArchiveProjectOutcome(row, archived, commit_ok) ==
    IF ~commit_ok
    THEN [row |-> row,
          report |-> Report("archive_project", "raised", "commit failed", 0, 0, None)]
    ELSE [row |-> Flush(row, ArchiveProjectAssign(Load(row), archived)),
          report |-> Report("archive_project", "success", "", 0, 0, None)]

\* update_project that resets the analysis whenever requirements is among
\* the fields sent
UpdateProjectAssign_resets_on_any_requirements(project, update_data) ==
    LET p1 == IF update_data.requirements /= Unset
              THEN SetAttr(project, "requirements", update_data.requirements)
              ELSE project
        p2 == IF update_data.ai_provider /= Unset
              THEN SetAttr(p1, "ai_provider", update_data.ai_provider)
              ELSE p1
        p3 == IF update_data.name /= Unset
              THEN SetAttr(p2, "name", update_data.name)
              ELSE p2
        p4 == IF update_data.description /= Unset
              THEN SetAttr(p3, "description", update_data.description)
              ELSE p3
    IN  IF update_data.requirements /= Unset
        THEN SetAttr(SetAttr(SetAttr(p4, "status", "draft"),
                             "refined_requirements", None),
                     "user_stories", None)
        ELSE p4

\* update_project, lines 69-81: update_data holds the fields the caller set
UpdateProjectAssign(project, update_data) ==
    LET requirements_updated ==
            /\ update_data.requirements /= Unset
            /\ update_data.requirements /= project["requirements"]
        p1 == IF update_data.requirements /= Unset
              THEN SetAttr(project, "requirements", update_data.requirements)
              ELSE project
        p2 == IF update_data.ai_provider /= Unset
              THEN SetAttr(p1, "ai_provider", update_data.ai_provider)
              ELSE p1
        p3 == IF update_data.name /= Unset
              THEN SetAttr(p2, "name", update_data.name)
              ELSE p2
        p4 == IF update_data.description /= Unset
              THEN SetAttr(p3, "description", update_data.description)
              ELSE p3
    IN  IF requirements_updated
        THEN SetAttr(SetAttr(SetAttr(p4, "status", "draft"),
                             "refined_requirements", None),
                     "user_stories", None)
        ELSE p4

\* update_project on a found project: name and requirements are NOT NULL,
\* so the commit of a null name or requirements raises
UpdateProjectOutcome(row, update_data, commit_ok) ==
    LET project == UpdateProjectAssign(Load(row), update_data) IN
    IF project["requirements"] = None \/ project["name"] = None \/ ~commit_ok
    THEN [row |-> row,
          report |-> Report("update_project", "raised", "commit failed", 0, 0, None)]
    ELSE [row |-> Flush(row, project),
          report |-> Report("update_project", "success", "", 0, 0, None)]

---------------------------------------------------------------------------
(* main.py: PATCH /api/v1/projects/{project_id} *)

\* the UPDATE statement built from the fields of the body that are not None
PatchProjectRow(row, project_update) ==
    [c \in Columns |->
        IF c = "requirements" /\ project_update.requirements /= None
        THEN project_update.requirements
        ELSE IF c = "ai_provider" /\ project_update.ai_provider /= None
        THEN project_update.ai_provider
        ELSE IF c = "name" /\ project_update.name /= None
        THEN project_update.name
        ELSE IF c = "description" /\ project_update.description /= None
        THEN project_update.description
        ELSE row[c]]

\* main.py PATCH /api/v1/projects/{project_id}/archive: the UPDATE
\* statement
ArchiveProjectRow(row, archived) ==
    [c \in Columns |-> IF c = "archived" THEN archived ELSE row[c]]

---------------------------------------------------------------------------
(* The operations *)

Found(project_id) == project_id \in DOMAIN bmad_projects

\* the table with the row of project_id replaced
Store(project_id, row) ==
    [i \in DOMAIN bmad_projects \cup {project_id} |->
        IF i = project_id THEN row ELSE bmad_projects[i]]

\* the application never registers a provider, and reaches the agents only
\* through the service
AppOnly == UNCHANGED <<registry, call, gen, parse, loop>>

NotFound(op) ==
    /\ lastCall' = Report(op, "failure", "Project not found", 0, 0, None)
    /\ UNCHANGED bmad_projects
    /\ AppOnly

\* the report of an operation that follows the one lastCall reports
Following(report) ==
    [report EXCEPT !.again = /\ lastCall.op = report.op
                             /\ lastCall.outcome = "success"]

Apply(project_id, outcome) ==
    /\ bmad_projects' = Store(project_id, outcome.row)
    /\ lastCall' = Following(outcome.report)
    /\ AppOnly

\* Apply for an operation whose agent made the provider calls of result
ApplyCalls(project_id, outcome, result) ==
    /\ bmad_projects' = Store(project_id, outcome.row)
    /\ lastCall' = Following(WithCalls(outcome.report, result))
    /\ AppOnly

\* services.py create_project: ai_provider is left to the column default
ProjectService_create_project ==
    \E project_id \in ProjectIds, requirements \in ReqTexts :
        /\ ~Found(project_id)
        /\ bmad_projects' = Store(project_id, NewRow(requirements, "anthropic"))
        /\ lastCall' = Report("create_project", "success", "", 0, 0, None)
        /\ AppOnly

\* main.py POST /api/v1/projects
main_create_project ==
    \E project_id \in ProjectIds, requirements \in ReqTexts,
       ai_provider \in ProviderNames :
        /\ ~Found(project_id)
        /\ bmad_projects' = Store(project_id, NewRow(requirements, ai_provider))
        /\ lastCall' = Report("POST project", "success", "", 0, 0, None)
        /\ AppOnly

ProjectService_update_project ==
    \E project_id \in ProjectIds,
       requirements \in ReqTexts \cup {Unset, None},
       ai_provider \in ProviderNames \cup {Unset},
       commit_ok \in BOOLEAN :
        IF ~Found(project_id) THEN NotFound("update_project")
        ELSE Apply(project_id,
                   UpdateProjectOutcome(bmad_projects[project_id],
                        [name |-> Unset, description |-> Unset,
                         requirements |-> requirements,
                         ai_provider |-> ai_provider],
                        commit_ok))

\* main.py PATCH /api/v1/projects/{project_id}
main_update_project ==
    \E project_id \in ProjectIds,
       requirements \in ReqTexts \cup {None},
       ai_provider \in ProviderNames \cup {None},
       commit_ok \in BOOLEAN :
        IF requirements = None /\ ai_provider = None
        THEN /\ lastCall' = Report("PATCH project", "failure",
                                   "No fields to update", 0, 0, None)
             /\ UNCHANGED bmad_projects
             /\ AppOnly
        ELSE IF ~Found(project_id) THEN NotFound("PATCH project")
        ELSE IF ~commit_ok
        THEN /\ lastCall' = Report("PATCH project", "failure",
                                   "Failed to update project", 0, 0, None)
             /\ UNCHANGED bmad_projects
             /\ AppOnly
        ELSE /\ bmad_projects' =
                    Store(project_id,
                          PatchProjectRow(bmad_projects[project_id],
                              [name |-> None, description |-> None,
                               requirements |-> requirements,
                               ai_provider |-> ai_provider]))
             /\ lastCall' = Report("PATCH project", "success", "", 0, 0, None)
             /\ AppOnly

ProjectService_analyze_requirements ==
    \E project_id \in ProjectIds :
        IF ~Found(project_id) THEN NotFound("analyze_requirements")
        ELSE LET row == bmad_projects[project_id] IN
             \E result \in RA_analyze_requirements(row["requirements"],
                                                   row["ai_provider"]),
                commit_ok \in BOOLEAN :
                 ApplyCalls(project_id,
                            AnalyzeRequirementsOutcome(row, result, commit_ok),
                            result)

ProjectService_generate_system_architecture ==
    \E project_id \in ProjectIds :
        IF ~Found(project_id) THEN NotFound("generate_system_architecture")
        ELSE LET row == bmad_projects[project_id] IN
             \E architecture_result \in SA_analyze_requirements(row["ai_provider"]),
                commit_ok \in BOOLEAN :
                 ApplyCalls(project_id,
                            GenerateSystemArchitectureOutcome(row,
                                architecture_result, commit_ok),
                            architecture_result)

ProjectService_generate_ux_design ==
    \E project_id \in ProjectIds :
        IF ~Found(project_id) THEN NotFound("generate_ux_design")
        ELSE LET row == bmad_projects[project_id] IN
             \E o \in CallOutcomes(row["ai_provider"]), commit_ok \in BOOLEAN :
                 Apply(project_id, GenerateUxDesignOutcome(row, o, commit_ok))

ProjectService_generate_project ==
    \E project_id \in ProjectIds :
        IF ~Found(project_id) THEN NotFound("generate_project")
        ELSE LET row == bmad_projects[project_id] IN
             \E project_result \in FS_generate_project(row["ai_provider"]),
                commit_ok \in BOOLEAN :
                 Apply(project_id,
                       GenerateProjectOutcome(row, project_result, commit_ok))

---------------------------------------------------------------------------
(* AIProviderFactory and _call_ai_service, called on their own *)

\* names a caller registers, names a caller asks for, and keys
RegisterNames == {"openai", "cohere"}
CreateNames == {"anthropic", "openai", "cohere", "mistral"}
ApiKeys == {"sk-1", "sk-2"}

\* bmad_ai_providers as a _call_ai_service may find it: as init_db fills
\* it, with the openai row deactivated, and with a cohere row added
ProviderTables ==
    {{"anthropic", "openai"}, {"anthropic"}, {"anthropic", "openai", "cohere"}}

\* no call made yet
NoCall ==
    [op |-> "none", agent |-> "", name |-> "", cls |-> "", api_key |-> "",
     active |-> {}, raised |-> "", message |-> "", supported |-> <<>>,
     instance |-> NoInstance, value |-> None, constructed |-> FALSE, network |-> 0]

LibraryOnly == UNCHANGED <<bmad_projects, lastCall, gen, parse, loop>>

AIProviderFactory_register_provider ==
    \E name \in RegisterNames, provider_class \in ProviderClasses :
        LET r == RegisterProvider(registry, name, provider_class) IN
        /\ registry' = r.registry
        /\ call' = [NoCall EXCEPT !.op = "register_provider", !.name = name,
                                  !.cls = provider_class, !.raised = r.raised]
        /\ LibraryOnly

AIProviderFactory_create_provider ==
    \E provider_name \in CreateNames, api_key \in ApiKeys :
        LET r == CreateProvider(registry, provider_name, api_key) IN
        /\ call' = [NoCall EXCEPT !.op = "create_provider",
                                  !.name = provider_name, !.api_key = api_key,
                                  !.raised = r.raised, !.message = r.message,
                                  !.supported = r.supported,
                                  !.instance = r.instance]
        /\ UNCHANGED registry
        /\ LibraryOnly

\* a _call_ai_service of an agent: RuntimeError carries the message of what
\* went wrong
AgentCall(agent, active, ai_provider, reply) ==
    LET o == CallAiService(active, registry, ai_provider, reply) IN
    /\ call' = [NoCall EXCEPT !.op = "_call_ai_service", !.agent = agent,
                              !.name = ai_provider, !.active = active,
                              !.raised = IF o.value = Raised THEN "RuntimeError"
                                         ELSE "",
                              !.message = o.error, !.value = o.value,
                              !.constructed = o.constructed,
                              !.network = o.network]
    /\ UNCHANGED registry
    /\ LibraryOnly

RequirementsAnalystAgent_call_ai_service ==
    \E active \in ProviderTables, ai_provider \in CreateNames :
        \E reply \in VendorReplies(registry, ai_provider) :
            AgentCall("RequirementsAnalystAgent", active, ai_provider, reply)

SoftwareArchitectAgent_call_ai_service ==
    \E active \in ProviderTables, ai_provider \in CreateNames :
        \E reply \in VendorReplies(registry, ai_provider) :
            AgentCall("SoftwareArchitectAgent", active, ai_provider, reply)

FullStackDeveloperAgent_call_ai_service ==
    \E active \in ProviderTables, ai_provider \in CreateNames :
        \E reply \in VendorReplies(registry, ai_provider) :
            AgentCall("FullStackDeveloperAgent", active, ai_provider, reply)

\* UXDesignerAgent._call_ai_service returns a dict instead of raising
UXDesignerAgent_call_ai_service ==
    \E active \in ProviderTables, ai_provider \in CreateNames :
        \E reply \in VendorReplies(registry, ai_provider) :
            LET o == CallAiService(active, registry, ai_provider, reply)
                ai_service == UX_call_ai_service(o) IN
            /\ call' = [NoCall EXCEPT !.op = "_call_ai_service",
                                      !.agent = "UXDesignerAgent",
                                      !.name = ai_provider, !.active = active,
                                      !.raised = "",
                                      !.message = IF ai_service.success THEN ""
                                                  ELSE o.error,
                                      !.value = IF ai_service.success
                                                THEN ai_service.response
                                                ELSE Raised,
                                      !.constructed = o.constructed,
                                      !.network = o.network]
            /\ UNCHANGED registry
            /\ LibraryOnly

---------------------------------------------------------------------------
(* FullStackDeveloperAgent.generate_project, one provider call per step *)

\* providers a caller of generate_project names
GenProviders == {"anthropic", "openai", "cohere"}

\* tech-stack answers a provider may give, next to the texts of any call
StackAnswers == {StackJson, GoStackJson, SvelteStackJson, ExpressStackJson}

\* index pages a provider may give: one link, the same page linked from
\* the menu and from the text, and a menu with a link to the index itself
IndexAnswers ==
    {"<nav><a href=\"about.html\">About</a></nav>",
     "<nav><a href=\"about.html\">About</a></nav><a href='about.html'>More</a>",
     "<nav><a href=\"index.html\">Home</a><a href=\"team.html\">Team</a></nav>"}

\* no tech stack yet
NoTechStack ==
    [type |-> "none", project_type |-> Unset, backend |-> Unset,
     frontend |-> Unset, containerization |-> Unset, doc |-> ""]

\* the dict generate_project returns: success, the status of its
\* code_generation entry and the files_created of that entry (no such key
\* when the code generation failed)
GenResult(success, code_generation, files_created) ==
    [success |-> success, code_generation |-> code_generation,
     files_created |-> files_created]

\* before the call
GenIdle ==
    [pc |-> "idle", ai_provider |-> None, tech_stack |-> NoTechStack,
     planned |-> <<>>, todo |-> <<>>, group |-> "",
     group_files |-> <<>>, sub_files |-> <<>>, files_created |-> <<>>,
     attempted |-> {}, failed |-> {}, disk |-> [f \in {} |-> ""],
     result |-> GenResult(FALSE, "not returned", <<>>)]

\* the method of the current group returns its list to
\* _generate_ai_driven_project: files_created.extend(...)
CloseGroup(g) ==
    [g EXCEPT !.files_created = @ \o g.group_files \o g.sub_files,
              !.group_files = <<>>, !.sub_files = <<>>, !.group = ""]

GenOnly == UNCHANGED <<bmad_projects, lastCall, registry, call, parse, loop>>

FS_generate_project_call ==
    /\ gen.pc = "idle"
    /\ \E ai_provider \in GenProviders :
          gen' = [gen EXCEPT !.pc = "data_model", !.ai_provider = ai_provider]
    /\ GenOnly

FS_data_model_step ==
    /\ gen.pc = "data_model"
    /\ \E o \in CallOutcomes(gen.ai_provider) :
          gen' = IF FS_generate_data_model(o).raised /= ""
                 THEN [gen EXCEPT !.pc = "done",
                                  !.result = GenResult(FALSE, "not started", <<>>)]
                 ELSE [gen EXCEPT !.pc = "tech_stack"]
    /\ GenOnly

FS_tech_stack_step ==
    /\ gen.pc = "tech_stack"
    /\ \E reply \in VendorReplies(_providers, gen.ai_provider) \cup StackAnswers :
          LET o == CallAiService(ActiveProviderConfigs, _providers,
                                 gen.ai_provider, reply)
              t == FS_analyze_tech_stack(o) IN
          gen' = IF t.raised /= ""
                 THEN [gen EXCEPT !.pc = "done",
                                  !.result = GenResult(FALSE, "not started", <<>>)]
                 ELSE IF FS_generate_project_structure(t.value).raised /= ""
                 THEN [gen EXCEPT !.pc = "done", !.tech_stack = t.value,
                                  !.result = GenResult(FALSE, "not started", <<>>)]
                 ELSE [gen EXCEPT !.pc = "folders", !.tech_stack = t.value,
                                  !.disk = WriteText(@, "tech-stack.md", "text")]
    /\ GenOnly

FS_folder_step ==
    /\ gen.pc = "folders"
    /\ \E o \in CallOutcomes(gen.ai_provider) :
          gen' = IF FS_folder_structure(o) = "raised"
                 THEN [gen EXCEPT !.pc = "documentation"]
                 ELSE [gen EXCEPT !.pc = "tasks",
                                  !.planned = PlannedTasks(gen.tech_stack),
                                  !.todo = PlannedTasks(gen.tech_stack)]
    /\ GenOnly

FS_task_step ==
    /\ gen.pc = "tasks"
    /\ gen.todo /= <<>>
    /\ \E o \in CallOutcomes(gen.ai_provider)
                 \cup {CallAiService(ActiveProviderConfigs, _providers,
                                     gen.ai_provider, reply) :
                          reply \in IF IsIndex(Head(gen.todo))
                                    THEN IndexAnswers ELSE {}} :
          LET task == Head(gen.todo)
              g == IF gen.group /= task.group
                   THEN [CloseGroup(gen) EXCEPT !.group = task.group]
                   ELSE gen
              r == RunTask(task, o) IN
          gen' = IF r.raised
                 THEN [g EXCEPT !.todo = SkipFailed(Tail(g.todo), task),
                                !.attempted = @ \cup {task.file},
                                !.failed = @ \cup {task.file},
                                !.sub_files = <<>>,
                                !.group_files = IF task.sub THEN @ ELSE <<>>]
                 ELSE [g EXCEPT !.todo = IF IsIndex(task)
                                         THEN WithPages(Tail(g.todo), o.value,
                                                        task.group)
                                         ELSE Tail(g.todo),
                                !.planned = IF IsIndex(task)
                                            THEN WithPages(@, o.value, task.group)
                                            ELSE @,
                                !.attempted = @ \cup {task.file},
                                !.disk = WriteText(@, task.file, r.content),
                                !.sub_files = IF task.sub
                                              THEN Append(@, task.file) ELSE @,
                                !.group_files = IF task.sub THEN @
                                                ELSE Append(@, task.file)]
    /\ GenOnly

\* _generate_code returns, _generate_documentation writes README.md, and
\* generate_project returns its dict
FS_return ==
    /\ \/ gen.pc = "documentation"
       \/ gen.pc = "tasks" /\ gen.todo = <<>>
    /\ gen' = IF gen.pc = "documentation"
              THEN [gen EXCEPT !.pc = "done",
                               !.disk = WriteText(@, "README.md", "text"),
                               !.result = GenResult(TRUE, "Code generation failed",
                                                    <<>>)]
              ELSE [CloseGroup(gen) EXCEPT
                       !.pc = "done",
                       !.disk = WriteText(@, "README.md", "text"),
                       !.result = GenResult(TRUE,
                           "AI-driven code generation completed successfully",
                           CloseGroup(gen).files_created)]
    /\ GenOnly

---------------------------------------------------------------------------
(* The JSON parsing of the agents, applied to provider answers *)

\* what a provider may put before, in place of and after the JSON it was
\* asked for
Prefixes == {"", " ", "Sure, here: "}
Bodies ==
    {"", "not json", "{\"a\":", "{\"a\":1}", "{\"sufficient\": false}",
     "[{\"id\":\"US-001\"}]", StackJson}
Suffixes == {"", " Thanks.", " }"}

ParseTexts ==
    {prefix \o body \o suffix :
        prefix \in Prefixes, body \in Bodies, suffix \in Suffixes}

\* the outcome of a _call_ai_service that returned text
Returned(text) ==
    [value |-> text, error |-> "", constructed |-> TRUE, network |-> 1]

\* nothing parsed yet
NoParse ==
    [parser |-> "none", response |-> "", raised |-> "", raw |-> None,
     value |-> None]

\* each behaviour parses one answer: the parsing keeps no state between
\* two answers
ParseIdle == parse.parser = "none"

ParseOnly == UNCHANGED <<bmad_projects, lastCall, registry, call, gen, loop>>

\* RequirementsAnalystAgent._analyze_project_context, from the answer on
RA_project_context_parse ==
    /\ ParseIdle
    /\ \E text \in ParseTexts :
        LET r == RA_project_context_response(Returned(text)) IN
        /\ parse' = [parser |-> "RA._analyze_project_context",
                     response |-> text, raised |-> r.raised, raw |-> r.raw,
                     value |-> r.value]
        /\ ParseOnly

\* RequirementsAnalystAgent._generate_user_stories, from the answer on
RA_user_stories_parse ==
    /\ ParseIdle
    /\ \E text \in ParseTexts :
        LET r == RA_generate_user_stories(Returned(text)) IN
        /\ parse' = [parser |-> "RA._generate_user_stories",
                     response |-> text, raised |-> r.raised, raw |-> r.raw,
                     value |-> r.value]
        /\ ParseOnly

\* what the validation call may end in: the texts, the two other values a
\* model may put under "sufficient", no text at all, and an exception
ValidationAnswers ==
    ParseTexts \cup {"{\"sufficient\": true}", "{\"sufficient\": null}",
                     None, Raised}

\* RequirementsAnalystAgent._analyze_project_context for requirements that
\* are not blank, from the outcome of the validation call to its
\* "if not is_sufficient"
RA_validate_parse ==
    /\ ParseIdle
    /\ \E answer \in ValidationAnswers :
        /\ parse' = [parser |-> "RA._validate_requirements_ai",
                     response |-> answer,
                     raised |-> IF RA_sufficient(answer) THEN ""
                                ELSE "Requirements are insufficient for analysis",
                     raw |-> None, value |-> None]
        /\ ParseOnly

\* SoftwareArchitectAgent._analyze_project_context, from the answer on: it
\* raises nothing
SA_project_context_parse ==
    /\ ParseIdle
    /\ \E text \in ParseTexts :
        /\ parse' = [parser |-> "SA._analyze_project_context",
                     response |-> text, raised |-> "", raw |-> None,
                     value |-> SA_analyze_project_context(Returned(text))]
        /\ ParseOnly

\* FullStackDeveloperAgent._analyze_tech_stack, from the answer on; value is
\* the returned dict as json.dumps writes it
FS_tech_stack_parse ==
    /\ ParseIdle
    /\ \E text \in ParseTexts :
        LET t == FS_analyze_tech_stack(Returned(text)) IN
        /\ parse' = [parser |-> "FS._analyze_tech_stack",
                     response |-> text, raised |-> t.raised, raw |-> None,
                     value |-> IF t.raised /= "" THEN None
                               ELSE Dumps(t.value.doc)]
        /\ ParseOnly

---------------------------------------------------------------------------
(* The event loop: requests as coroutines.  uvicorn runs every endpoint    *)
(* coroutine on one event loop; a coroutine keeps the loop until it        *)
(* awaits something that suspends.  The awaits of a stage transition that  *)
(* suspend are those on the AsyncSession (asyncpg): get_project, the       *)
(* provider row of _call_ai_service, commit and rollback.  call_ai is      *)
(* declared async but calls the vendor's synchronous client and awaits     *)
(* nothing, so the loop is held from the request to the vendor until its   *)
(* answer.                                                                 *)

\* the requests in flight and the project each addresses
Requests == {1, 2, 3}
RequestProject(r) == IF r = 3 THEN 2 ELSE 1

\* the stage transitions a request may ask for
AsyncOps == {"analyze_requirements", "generate_system_architecture"}

\* what the vendor answers to a call made from a request
AsyncReplies == {Raised, "[{\"id\":\"US-001\"}]"}

\* the requirements text a PATCH request sends
PatchTexts == {"mobile app"}

\* an instance before get_project returned
NoProject == [c \in MappedColumns |-> None]

\* what an agent has produced so far
NoResult ==
    [refined_requirements |-> None, user_stories |-> None,
     system_architecture |-> None]

\* a coroutine: the endpoint it runs, the await it is suspended at (pc),
\* the provider calls it has behind it, the instance get_project loaded,
\* what its agent has produced, and what it returned
NewTask ==
    [op |-> "", pc |-> "new", calls |-> 0, project |-> NoProject,
     result |-> NoResult, outcome |-> ""]

\* blocked is the request whose call_ai holds the loop, 0 when none does
LoopIdle == [blocked |-> 0, tasks |-> [r \in Requests |-> NewTask]]

\* the UPDATE of db.commit(): the unit of work writes the mapped
\* attributes whose value differs from the one loaded
FlushChanged(row, loaded, project) ==
    [c \in Columns |->
        IF c \in MappedColumns /\ project[c] /= loaded[c]
        THEN project[c] ELSE row[c]]

\* the coroutine after _call_ai_service number task.calls + 1 came to o:
\* the agent goes on to its next call, or returns to the service, which
\* assigns and awaits the commit, or raises to the service, which awaits
\* the rollback
AfterCall(task, o) ==
    LET next == [task EXCEPT !.calls = @ + 1, !.pc = "provider_config"]
        fail == [task EXCEPT !.calls = @ + 1, !.pc = "rollback"] IN
    IF task.op = "analyze_requirements"
    THEN CASE task.calls = 0 ->
                IF RA_sufficient(o.value) THEN next ELSE fail
           [] task.calls = 1 ->
                IF RA_project_context_response(o).raised = "" THEN next ELSE fail
           [] task.calls = 2 ->
                LET r == RA_generate_refined_requirements(o) IN
                IF r.raised /= "" THEN fail
                ELSE [next EXCEPT !.result.refined_requirements = r.value]
           [] OTHER ->
                LET u == RA_generate_user_stories(o) IN
                IF u.raised /= "" THEN fail
                ELSE [next EXCEPT !.result.user_stories = u.value,
                                  !.pc = "commit"]
    ELSE IF task.calls = 0 THEN next
    ELSE [next EXCEPT !.result.system_architecture =
                            SA_generate_system_architecture(o),
                      !.pc = "commit"]

\* the instance as the service has assigned it when it awaits the commit
Assigned(task) ==
    IF task.op = "analyze_requirements"
    THEN AnalyzeRequirementsAssign(task.project, task.result)
    ELSE GenerateSystemArchitectureAssign(task.project, task.result)

AsyncOnly == UNCHANGED <<lastCall, registry, call, gen, parse>>

\* the loop is free to run a coroutine that is ready
LoopFree == loop.blocked = 0

\* a request arrives: the endpoint gets its session and awaits get_project
AsyncRequest(r) ==
    /\ LoopFree
    /\ loop.tasks[r].pc = "new"
    /\ \E op \in AsyncOps :
          loop' = [loop EXCEPT !.tasks[r].op = op, !.tasks[r].pc = "get_project"]
    /\ UNCHANGED bmad_projects
    /\ AsyncOnly

\* get_project returns the instance; the agent runs up to the first await
\* that suspends
AsyncGetProject(r) ==
    /\ LoopFree
    /\ loop.tasks[r].pc = "get_project"
    /\ LET project == Load(bmad_projects[RequestProject(r)])
           requirements == project["requirements"] IN
       loop' = [loop EXCEPT
                  !.tasks[r].project = project,
                  !.tasks[r].pc =
                      IF /\ loop.tasks[r].op = "analyze_requirements"
                         /\ (~Truthy(requirements) \/ ~Truthy(Strip(requirements)))
                      THEN "rollback" ELSE "provider_config"]
    /\ UNCHANGED bmad_projects
    /\ AsyncOnly

\* the provider row arrives in _call_ai_service: without an active row or
\* a registered class the call raises at once, else call_ai enters the
\* vendor's client and the loop is held
AsyncProviderConfig(r) ==
    /\ LoopFree
    /\ loop.tasks[r].pc = "provider_config"
    /\ LET task == loop.tasks[r]
           o == CallAiService(ActiveProviderConfigs, _providers,
                              task.project["ai_provider"], Raised) IN
       loop' = IF o.network = 0
               THEN [loop EXCEPT !.tasks[r] = AfterCall(task, o)]
               ELSE [loop EXCEPT !.tasks[r].pc = "call_ai", !.blocked = r]
    /\ UNCHANGED bmad_projects
    /\ AsyncOnly

\* the vendor's client returns or raises inside call_ai; the coroutine runs
\* on to its next await
AsyncCallAi(r) ==
    /\ loop.blocked = r
    /\ loop.tasks[r].pc = "call_ai"
    /\ \E reply \in AsyncReplies :
          LET task == loop.tasks[r]
              o == CallAiService(ActiveProviderConfigs, _providers,
                                 task.project["ai_provider"], reply) IN
          loop' = [loop EXCEPT !.tasks[r] = AfterCall(task, o), !.blocked = 0]
    /\ UNCHANGED bmad_projects
    /\ AsyncOnly

\* db.commit() returns or raises
AsyncCommit(r) ==
    /\ LoopFree
    /\ loop.tasks[r].pc = "commit"
    /\ \E commit_ok \in BOOLEAN :
          LET task == loop.tasks[r]
              i == RequestProject(r) IN
          IF commit_ok
          THEN /\ bmad_projects' =
                      Store(i, FlushChanged(bmad_projects[i], task.project,
                                            Assigned(task)))
               /\ loop' = [loop EXCEPT !.tasks[r].pc = "done",
                                       !.tasks[r].outcome = "success"]
          ELSE /\ loop' = [loop EXCEPT !.tasks[r].pc = "rollback"]
               /\ UNCHANGED bmad_projects
    /\ AsyncOnly

\* db.rollback() returns and the service returns its failure dict
AsyncRollback(r) ==
    /\ LoopFree
    /\ loop.tasks[r].pc = "rollback"
    /\ loop' = [loop EXCEPT !.tasks[r].pc = "done",
                            !.tasks[r].outcome = "failure"]
    /\ UNCHANGED bmad_projects
    /\ AsyncOnly

\* a PATCH /api/v1/projects/{project_id} arrives and awaits its UPDATE
AsyncPatchRequest(r) ==
    /\ LoopFree
    /\ loop.tasks[r].pc = "new"
    /\ loop' = [loop EXCEPT !.tasks[r].op = "PATCH project",
                            !.tasks[r].pc = "patch"]
    /\ UNCHANGED bmad_projects
    /\ AsyncOnly

\* the UPDATE ... RETURNING of the PATCH and its db.commit(), at the
\* moment the commit makes the row visible; or the rollback of its except
\* branch
AsyncPatch(r) ==
    /\ LoopFree
    /\ loop.tasks[r].pc = "patch"
    /\ \E requirements \in PatchTexts, commit_ok \in BOOLEAN :
          LET i == RequestProject(r) IN
          IF commit_ok
          THEN /\ bmad_projects' =
                      Store(i, PatchProjectRow(bmad_projects[i],
                                   [name |-> None, description |-> None,
                                    requirements |-> requirements,
                                    ai_provider |-> None]))
               /\ loop' = [loop EXCEPT !.tasks[r].pc = "done",
                                       !.tasks[r].outcome = "success"]
          ELSE /\ loop' = [loop EXCEPT !.tasks[r].pc = "done",
                                       !.tasks[r].outcome = "failure"]
               /\ UNCHANGED bmad_projects
    /\ AsyncOnly

\* the steps of one request
RequestStep(r) ==
    \/ AsyncRequest(r)
    \/ AsyncPatchRequest(r)
    \/ AsyncPatch(r)
    \/ AsyncGetProject(r)
    \/ AsyncProviderConfig(r)
    \/ AsyncCallAi(r)
    \/ AsyncCommit(r)
    \/ AsyncRollback(r)

\* the table when the requests arrive: two projects
InitAsync ==
    /\ bmad_projects = [i \in {1, 2} |-> NewRow("web site", "anthropic")]
    /\ lastCall = Report("startup", "success", "", 0, 0, None)
    /\ registry = _providers
    /\ call = NoCall
    /\ gen = GenIdle
    /\ parse = NoParse
    /\ loop = LoopIdle

---------------------------------------------------------------------------
(* Edits and archiving of stored projects.  call holds the arguments of    *)
(* the operation, and for an archive the flag the row had before.          *)

\* the rows a project may have when it is edited or archived: as created,
\* after analyze_requirements and after generate_system_architecture
DraftRows == {NewRow("web site", "anthropic")}

AnalysedRows ==
    UNION {{AnalyzeRequirementsOutcome(row, result, TRUE).row :
              result \in RA_analyze_requirements(row["requirements"],
                                                 row["ai_provider"])} :
           row \in DraftRows}

DesignedRows ==
    UNION {{GenerateSystemArchitectureOutcome(row, architecture_result, TRUE).row :
              architecture_result \in SA_analyze_requirements(row["ai_provider"])} :
           row \in AnalysedRows}

\* of these, the rows whose artifacts come from one answer of the provider
StoredRows ==
    {row \in DraftRows \cup AnalysedRows \cup DesignedRows :
        /\ row["refined_requirements"] \in {None, "Design notes"}
        /\ row["user_stories"] \in {None, "[{\"id\": \"US-001\"}]"}
        /\ row["system_architecture"] \in {None, "Design notes"}}

\* what the callers send
ArchivedFlags == {"true", "false"}
EditNames == {Unset, None, "store"}
EditDescriptions == {Unset, "notes"}
EditRequirements == {Unset, "web site", "mobile app"}
EditProviders == {Unset, "cohere"}

EditOnly == UNCHANGED <<registry, gen, parse, loop>>

\* services.py archive_project
ProjectService_archive_project ==
    \E project_id \in ProjectIds, archived \in ArchivedFlags,
       commit_ok \in BOOLEAN :
        /\ IF ~Found(project_id)
           THEN /\ lastCall' = Report("archive_project", "failure",
                                      "Project not found", 0, 0, None)
                /\ call' = [op |-> "archive_project", archived |-> archived,
                            was |-> None]
                /\ UNCHANGED bmad_projects
           ELSE LET row == bmad_projects[project_id]
                    outcome == ArchiveProjectOutcome(row, archived, commit_ok) IN
                /\ bmad_projects' = Store(project_id, outcome.row)
                /\ lastCall' = outcome.report
                /\ call' = [op |-> "archive_project", archived |-> archived,
                            was |-> row["archived"]]
        /\ EditOnly

\* main.py PATCH /api/v1/projects/{project_id}/archive
main_archive_project ==
    \E project_id \in ProjectIds, archived \in ArchivedFlags,
       commit_ok \in BOOLEAN :
        /\ IF ~Found(project_id)
           THEN /\ lastCall' = Report("PATCH archive", "failure",
                                      "Project not found", 0, 0, None)
                /\ call' = [op |-> "PATCH archive", archived |-> archived,
                            was |-> None]
                /\ UNCHANGED bmad_projects
           ELSE LET row == bmad_projects[project_id] IN
                /\ bmad_projects' =
                       IF commit_ok
                       THEN Store(project_id, ArchiveProjectRow(row, archived))
                       ELSE bmad_projects
                /\ lastCall' =
                       IF commit_ok
                       THEN Report("PATCH archive", "success", "", 0, 0, None)
                       ELSE Report("PATCH archive", "failure",
                                   "Failed to update project", 0, 0, None)
                /\ call' = [op |-> "PATCH archive", archived |-> archived,
                            was |-> row["archived"]]
        /\ EditOnly

\* services.py update_project with any of its fields set
ProjectService_update_project_fields ==
    \E project_id \in ProjectIds, name \in EditNames,
       description \in EditDescriptions, requirements \in EditRequirements,
       ai_provider \in EditProviders, commit_ok \in BOOLEAN :
        LET update_data == [name |-> name, description |-> description,
                            requirements |-> requirements,
                            ai_provider |-> ai_provider] IN
        /\ call' = [op |-> "update_project", update_data |-> update_data]
        /\ IF ~Found(project_id)
           THEN /\ lastCall' = Report("update_project", "failure",
                                      "Project not found", 0, 0, None)
                /\ UNCHANGED bmad_projects
           ELSE LET outcome == UpdateProjectOutcome(bmad_projects[project_id],
                                                   update_data, commit_ok) IN
                /\ bmad_projects' = Store(project_id, outcome.row)
                /\ lastCall' = outcome.report
        /\ EditOnly

\* the table when the edits arrive: empty, or one stored project
InitEdit ==
    /\ bmad_projects \in {[i \in {} |-> None]}
                          \cup {[i \in ProjectIds |-> row] : row \in StoredRows}
    /\ lastCall = Report("startup", "success", "", 0, 0, None)
    /\ registry = _providers
    /\ call = NoCall
    /\ gen = GenIdle
    /\ parse = NoParse
    /\ loop = LoopIdle

---------------------------------------------------------------------------

Init ==
    /\ bmad_projects = [i \in {} |-> None]
    /\ lastCall = Report("startup", "success", "", 0, 0, None)
    /\ registry = _providers
    /\ call = NoCall
    /\ gen = GenIdle
    /\ parse = NoParse
    /\ loop = LoopIdle

Next ==
    \/ ProjectService_create_project
    \/ main_create_project
    \/ ProjectService_update_project
    \/ main_update_project
    \/ ProjectService_analyze_requirements
    \/ ProjectService_generate_system_architecture
    \/ ProjectService_generate_ux_design
    \/ ProjectService_generate_project

Spec == Init /\ [][Next]_vars

NextProviders ==
    \/ AIProviderFactory_register_provider
    \/ AIProviderFactory_create_provider
    \/ RequirementsAnalystAgent_call_ai_service
    \/ SoftwareArchitectAgent_call_ai_service
    \/ UXDesignerAgent_call_ai_service
    \/ FullStackDeveloperAgent_call_ai_service

SpecProviders == Init /\ [][NextProviders]_vars

NextGen ==
    \/ FS_generate_project_call
    \/ FS_data_model_step
    \/ FS_tech_stack_step
    \/ FS_folder_step
    \/ FS_task_step
    \/ FS_return

SpecGen == Init /\ [][NextGen]_vars

NextParse ==
    \/ RA_project_context_parse
    \/ RA_user_stories_parse
    \/ RA_validate_parse
    \/ SA_project_context_parse
    \/ FS_tech_stack_parse

SpecParse == Init /\ [][NextParse]_vars

NextAsync ==
    \/ \E r \in Requests : AsyncRequest(r)
    \/ \E r \in Requests : AsyncPatchRequest(r)
    \/ \E r \in Requests : AsyncPatch(r)
    \/ \E r \in Requests : AsyncGetProject(r)
    \/ \E r \in Requests : AsyncProviderConfig(r)
    \/ \E r \in Requests : AsyncCallAi(r)
    \/ \E r \in Requests : AsyncCommit(r)
    \/ \E r \in Requests : AsyncRollback(r)

SpecAsync == InitAsync /\ [][NextAsync]_vars

NextEdit ==
    \/ ProjectService_archive_project
    \/ main_archive_project
    \/ ProjectService_update_project_fields

SpecEdit == InitEdit /\ [][NextEdit]_vars

---------------------------------------------------------------------------
(* Vocabulary of the properties *)

\* the stages in their forward order
StageRank(status) ==
    CASE status = "draft" -> 0
      [] status = "Requirements Complete" -> 1
      [] status = "System Architecture Complete" -> 2
      [] status = "UX Design Complete" -> 3
      [] status = "Project Generated" -> 4

\* an artifact slot of the stored record; a slot the table has no column
\* for holds nothing
Artifact(row, slot) == IF slot \in DOMAIN row THEN row[slot] ELSE None

ArtifactSlots ==
    {"refined_requirements", "user_stories", "system_architecture",
     "ux_design", "tech_stack", "generated_project_reference"}

\* the artifacts the transition into a stage produces
Produces(status) ==
    CASE status = "Requirements Complete" -> {"refined_requirements", "user_stories"}
      [] status = "System Architecture Complete" -> {"system_architecture"}
      [] status = "UX Design Complete" -> {"ux_design"}
      [] status = "Project Generated" -> {"tech_stack", "generated_project_reference"}
      [] OTHER -> {}

\* the operation that owns the transition into a stage
OwningOp(status) ==
    CASE status = "Requirements Complete" -> "analyze_requirements"
      [] status = "System Architecture Complete" -> "generate_system_architecture"
      [] status = "UX Design Complete" -> "generate_ux_design"
      [] status = "Project Generated" -> "generate_project"
      [] OTHER -> "none"

TransitionOps ==
    {"analyze_requirements", "generate_system_architecture",
     "generate_ux_design", "generate_project"}

\* the errors with which generate_project refuses a missing prerequisite
PreconditionErrors ==
    {"Requirements analysis must be completed first",
     "System architecture must be completed first",
     "UX/UI design must be completed first"}

---------------------------------------------------------------------------
(* Properties *)

\* C1: a step that moves a project's stage forward is a successful run of
\* the operation owning the new stage, and the row it commits holds every
\* artifact that transition produces, non-empty, together with the new
\* stage value.
C1_StageAdvancesWithArtifacts ==
    [][\A i \in ProjectIds :
        (/\ Found(i) /\ i \in DOMAIN bmad_projects'
         /\ StageRank(bmad_projects'[i]["status"])
              > StageRank(bmad_projects[i]["status"]))
        => /\ lastCall'.op = OwningOp(bmad_projects'[i]["status"])
           /\ lastCall'.outcome = "success"
           /\ \A slot \in Produces(bmad_projects'[i]["status"]) :
                 Truthy(Artifact(bmad_projects'[i], slot))]_vars

\* C1 witness: the Architecture transition has advanced a project that had
\* completed the Requirements stage
C1_Witness ==
    \E i \in DOMAIN bmad_projects :
        /\ lastCall.op = "generate_system_architecture"
        /\ lastCall.outcome = "success"
        /\ lastCall.network = 2
        /\ bmad_projects[i]["status"] = "System Architecture Complete"
        /\ Truthy(bmad_projects[i]["refined_requirements"])
        /\ Truthy(bmad_projects[i]["system_architecture"])

\* C2: every step that changes a project's requirements leaves the stage
\* at draft and every artifact slot empty.
C2_EditResetsEverything ==
    [][\A i \in ProjectIds :
        (/\ Found(i) /\ i \in DOMAIN bmad_projects'
         /\ bmad_projects'[i]["requirements"] /= bmad_projects[i]["requirements"])
        => /\ bmad_projects'[i]["status"] = "draft"
           /\ \A slot \in ArtifactSlots :
                 Artifact(bmad_projects'[i], slot) = None]_vars

C4_RequirementsTransition ==
    \A i \in DOMAIN bmad_projects :
        (lastCall.op = "analyze_requirements" /\ lastCall.outcome = "success")
        => /\ Truthy(bmad_projects[i]["refined_requirements"])
           /\ Truthy(bmad_projects[i]["user_stories"])
           /\ bmad_projects[i]["status"] = "Requirements Complete"
           /\ Artifact(bmad_projects[i], "system_architecture") = None
           /\ Artifact(bmad_projects[i], "ux_design") = None
           /\ Artifact(bmad_projects[i], "tech_stack") = None

\* C4 witness: analyze_requirements has succeeded
C4_Witness ==
    \E i \in DOMAIN bmad_projects :
        /\ lastCall.op = "analyze_requirements"
        /\ lastCall.outcome = "success"
        /\ lastCall.network = 4
        /\ bmad_projects[i]["status"] = "Requirements Complete"
        /\ bmad_projects[i]["user_stories"] = "[{\"id\": \"US-001\"}]"

\* C6: generate_ux_design on a project in System Architecture Complete,
\* with a provider that answers non-empty text, stores that text as
\* ux_design, sets the stage to UX Design Complete and leaves every other
\* column as it was.
C6_UxTransition ==
    [][\A i \in ProjectIds :
        (/\ Found(i)
         /\ bmad_projects[i]["status"] = "System Architecture Complete"
         /\ lastCall'.op = "generate_ux_design"
         /\ lastCall'.offered \notin {Raised, None, ""})
        => /\ lastCall'.outcome = "success"
           /\ bmad_projects'[i]["ux_design"] = lastCall'.offered
           /\ bmad_projects'[i]["status"] = "UX Design Complete"
           /\ \A c \in Columns \ {"ux_design", "status"} :
                 bmad_projects'[i][c] = bmad_projects[i][c]]_vars

\* C7: generate_project on a project that lacks refined_requirements,
\* system_architecture or ux_design returns a failure, calls no provider,
\* writes no file and leaves the table as it was.
C7_MissingPrerequisite ==
    [][\A i \in ProjectIds :
        (/\ Found(i)
         /\ lastCall'.op = "generate_project"
         /\ \E slot \in {"refined_requirements", "system_architecture", "ux_design"} :
               ~Truthy(Artifact(bmad_projects[i], slot)))
        => /\ lastCall'.outcome = "failure"
           /\ lastCall'.network = 0
           /\ lastCall'.files = 0
           /\ bmad_projects' = bmad_projects]_vars

\* C9: generate_system_architecture on a project without
\* refined_requirements is refused and changes nothing, and no step takes
\* the stage from draft to System Architecture Complete.
C9_ArchitectureNeedsRequirements ==
    [][\A i \in ProjectIds :
        Found(i) =>
        /\ (/\ lastCall'.op = "generate_system_architecture"
            /\ ~Truthy(bmad_projects[i]["refined_requirements"]))
           => (lastCall'.outcome = "failure" /\ bmad_projects' = bmad_projects)
        /\ bmad_projects[i]["status"] = "draft"
           => bmad_projects'[i]["status"] /= "System Architecture Complete"]_vars

\* C10: generate_ux_design on a project without system_architecture is
\* refused with a precondition error, and no row is in UX Design Complete
\* without a system_architecture.
C10_UxNeedsArchitecture ==
    [][\A i \in ProjectIds :
        Found(i) =>
        /\ (/\ lastCall'.op = "generate_ux_design"
            /\ ~Truthy(bmad_projects[i]["system_architecture"]))
           => (lastCall'.outcome = "failure"
               /\ lastCall'.error \in PreconditionErrors)
        /\ bmad_projects'[i]["status"] = "UX Design Complete"
           => Truthy(bmad_projects'[i]["system_architecture"])]_vars

\* C11: in every state no row holds a ux_design without a
\* system_architecture, nor a system_architecture without
\* refined_requirements.
C11_DerivedFromPresent ==
    \A i \in DOMAIN bmad_projects :
        /\ Truthy(Artifact(bmad_projects[i], "ux_design"))
           => Truthy(Artifact(bmad_projects[i], "system_architecture"))
        /\ Truthy(Artifact(bmad_projects[i], "system_architecture"))
           => Truthy(Artifact(bmad_projects[i], "refined_requirements"))

\* the handlers of the Requirements, Architecture and UXDesign stages
AgentStageOps ==
    {"analyze_requirements", "generate_system_architecture",
     "generate_ux_design"}

\* C12: a run of the Requirements, Architecture or UXDesign handler in
\* which a provider call failed is reported as a failure and moves no
\* project's stage forward.
C12_ProviderFailureFailsStage ==
    [][(lastCall'.op \in AgentStageOps /\ lastCall'.failed)
        => /\ lastCall'.outcome = "failure"
           /\ \A i \in DOMAIN bmad_projects :
                 StageRank(bmad_projects'[i]["status"])
                   <= StageRank(bmad_projects[i]["status"])]_vars

\* a run of generate_project that went through its file generation and
\* has returned
FanOutDone == gen.pc = "done" /\ gen.planned /= <<>>

\* the files the returned dict lists; the failure records it carries, none
\* when the dict has no such entry
ListedFiles(result) ==
    {result.files_created[k] : k \in DOMAIN result.files_created}

FailureRecords(result) ==
    IF "failures" \in DOMAIN result THEN result.failures ELSE {}

\* C13: when a run of the file generation has returned, every task planned
\* for the tech stack has been executed, whichever of the other tasks
\* failed.
C13_SiblingTasksRun ==
    FanOutDone => FilesOf(gen.planned) \subseteq gen.attempted

\* C14: the result of a run of the file generation is a success that lists
\* exactly the files of the tasks that succeeded and carries one failure
\* record for each task that failed.
C14_ResultListsTasks ==
    FanOutDone =>
        /\ gen.result.success
        /\ ListedFiles(gen.result) = gen.attempted \ gen.failed
        /\ FailureRecords(gen.result) = gen.failed

\* the elements of a list
Elements(list) == {list[k] : k \in DOMAIN list}

\* C16: a create_provider for a name that is not registered raises the
\* unsupported-provider error, and the names its message lists are exactly
\* the names registered at that moment.
C16_UnsupportedListsRegistered ==
    (call.op = "create_provider" /\ ~Registered(registry, call.name))
    => /\ call.raised = "ValueError"
       /\ call.message = "Unsupported AI provider"
       /\ call.supported = Keys(registry)

\* C16 witness: create_provider was refused for a name never registered
\* while a name added by register_provider is in the factory and in the
\* message
C16_Witness ==
    /\ call.op = "create_provider"
    /\ call.name = "mistral"
    /\ call.raised = "ValueError"
    /\ Registered(registry, "cohere")
    /\ "cohere" \in Elements(call.supported)

\* C17: a _call_ai_service for a provider without an active configuration
\* row fails with the not-found-or-inactive error, has built no provider
\* object and has made no network call.
C17_UnavailableBeforeConstruction ==
    (call.op = "_call_ai_service" /\ call.name \notin call.active)
    => /\ call.value = Raised
       /\ call.message = "not found or inactive"
       /\ ~call.constructed
       /\ call.network = 0

\* C17 witness: the call was refused for a provider the factory could have
\* built, its row being deactivated or missing
C17_Witness ==
    /\ call.op = "_call_ai_service"
    /\ call.name \notin call.active
    /\ Registered(registry, call.name)
    /\ ~IsAbstract(Lookup(registry, call.name))
    /\ call.agent = "UXDesignerAgent"
    /\ call.message = "not found or inactive"

\* C19: a call_ai that returned to _call_ai_service returned non-empty
\* text.
C19_CallAiNeverEmpty ==
    (call.op = "_call_ai_service" /\ call.network = 1 /\ call.value /= Raised)
    => Truthy(call.value)

\* every step leaves the class of each registered name as it was, but for
\* the name an accepted register_provider has just set
OtherEntriesKept ==
    \A n \in Elements(Keys(registry)) :
        (call'.op = "register_provider" /\ call'.raised = "" /\ call'.name = n)
        \/ (Registered(registry', n) /\ Lookup(registry', n) = Lookup(registry, n))

\* a rejected register_provider leaves the registry as it was
RejectedRegisterKeepsRegistry ==
    (call'.op = "register_provider" /\ call'.raised /= "")
    => registry' = registry

\* C18: once register_provider(name, cls) has been accepted, a
\* create_provider(name, key) returns an instance of cls holding key, and
\* stays so until the name is registered again; a rejected register_provider
\* leaves the registry as it was.
C18_RegisteredIsCreated ==
    [][/\ (call'.op = "register_provider" /\ call'.raised = "")
          => \A api_key \in ApiKeys :
                CreateProvider(registry', call'.name, api_key).instance
                  = [cls |-> call'.cls, api_key |-> api_key]
       /\ (call'.op = "create_provider" /\ Registered(registry, call'.name))
          => /\ call'.raised = ""
             /\ call'.instance = [cls |-> Lookup(registry, call'.name),
                                  api_key |-> call'.api_key]
       /\ RejectedRegisterKeepsRegistry
       /\ OtherEntriesKept]_vars

\* C18 as it holds: the same for every class that can be instantiated; for
\* a registered class with an abstract method left, such as BaseAIProvider
\* itself, create_provider raises TypeError.
C18_ConcreteRegisteredIsCreated ==
    [][/\ (call'.op = "register_provider" /\ call'.raised = "")
          => \A api_key \in ApiKeys :
                IF IsAbstract(call'.cls)
                THEN CreateProvider(registry', call'.name, api_key).raised
                       = "TypeError"
                ELSE CreateProvider(registry', call'.name, api_key).instance
                       = [cls |-> call'.cls, api_key |-> api_key]
       /\ (call'.op = "create_provider" /\ Registered(registry, call'.name))
          => IF IsAbstract(Lookup(registry, call'.name))
             THEN call'.raised = "TypeError" /\ call'.instance = NoInstance
             ELSE /\ call'.raised = ""
                  /\ call'.instance = [cls |-> Lookup(registry, call'.name),
                                       api_key |-> call'.api_key]
       /\ RejectedRegisterKeepsRegistry
       /\ OtherEntriesKept]_vars

\* C18 witness: create_provider has returned an instance of the class that
\* replaced the one the name was first registered with
C18_Witness ==
    /\ call.op = "create_provider"
    /\ call.name = "openai"
    /\ Registered(registry, "cohere")
    /\ Lookup(registry, "openai") = "CohereProvider"
    /\ call.instance = [cls |-> "CohereProvider", api_key |-> "sk-2"]

\* C20: a run of a stage handler in which a provider call returned the
\* empty string fails and leaves every row, and so every artifact, as it
\* was.
C20_EmptyResponseRejected ==
    [][(lastCall'.op \in AgentStageOps /\ lastCall'.empty)
        => /\ lastCall'.outcome = "failure"
           /\ bmad_projects' = bmad_projects]_vars

\* the JSON type each parsing method is asked to return
ExpectedType(parser) ==
    IF parser = "RA._generate_user_stories" THEN "array" ELSE "object"

\* prose: text without a brace or a bracket
IsProse(t) ==
    /\ Find(t, "{") = 0 /\ Find(t, "}") = 0
    /\ Find(t, "[") = 0 /\ Find(t, "]") = 0

\* the answer is the document d with prose before and after it
Embedded(response, d) ==
    \E prefix \in Prefixes, suffix \in Suffixes :
        /\ IsProse(prefix) /\ IsProse(suffix)
        /\ response = prefix \o d \o suffix

\* C21: every parsing method returns the value of a JSON document of its
\* type that the answer holds between prose, whether or not the direct
\* parse of the answer succeeds.
C21_EmbeddedJsonRecovered ==
    \A d \in JsonDocs :
        (/\ parse.parser /= "none"
         /\ JsonLoads(d).type = ExpectedType(parse.parser)
         /\ Embedded(parse.response, d))
        => (parse.raised = "" /\ parse.value = Dumps(d))

\* d occurs in t
IsSubstring(d, t) ==
    \E i \in 1..Len(t) :
        i + Len(d) - 1 <= Len(t) /\ SubSeq(t, i, i + Len(d) - 1) = d

\* the text from the first opening brace or bracket of an answer to its
\* last closing brace or bracket, None when there is none
Extracted(response) ==
    LET opens == {Find(response, "{"), Find(response, "[")} \ {0}
        closes == {RFind(response, "}"), RFind(response, "]")} \ {0} IN
    IF opens = {} \/ closes = {} THEN None
    ELSE Slice(response, CHOOSE i \in opens : \A j \in opens : i <= j,
               CHOOSE i \in closes : \A j \in closes : i >= j)

\* neither the answer nor what is extracted from it is JSON
Unparseable(response) ==
    /\ JsonLoads(response).err /= ""
    /\ JsonLoads(Extracted(response)).err /= ""

\* C22: a non-empty answer that is JSON neither as it is nor after
\* extraction makes the parsing method raise an error that carries the
\* answer, and whatever a parsing method returns is the value of a document
\* that occurs in the answer.
C22_MalformedNeverFabricated ==
    (parse.parser /= "none" /\ parse.response /= "")
    => /\ Unparseable(parse.response)
          => (parse.raised /= "" /\ parse.raw = parse.response)
       /\ parse.raised = ""
          => \E d \in JsonDocs :
                IsSubstring(d, parse.response) /\ parse.value = Dumps(d)

\* the dict a method of ProjectService returns for a failure
FailureDict(error) == [success |-> FALSE, error |-> error]

\* what the endpoint of main.py answers when the service method raised
HttpError(detail) == [status_code |-> 500, detail |-> detail]

\* what the caller of a stage transition that did not succeed gets back
ReturnedFailure(report) ==
    IF report.outcome = "raised" THEN HttpError(report.error)
    ELSE FailureDict(report.error)

\* the failure kinds a caller is to tell apart
FailureKinds ==
    {"PreconditionNotMet", "UnsupportedProvider", "ProviderUnavailable",
     "EmptyResponse", "MalformedResponse", "TaskPartialFailure",
     "TransientProvider"}

\* C23: what a stage transition that did not succeed returns carries a
\* kind, and the kind is one of the seven failure kinds.
C23_FailureCarriesKind ==
    (lastCall.op \in TransitionOps /\ lastCall.outcome /= "success")
    => /\ "kind" \in DOMAIN ReturnedFailure(lastCall)
       /\ ReturnedFailure(lastCall).kind \in FailureKinds

\* a request between the return of its get_project and the return of its
\* commit
InFlight(r) == loop.tasks[r].pc \in {"provider_config", "call_ai", "commit"}

\* C24: no two requests for the same project are in flight together.
C24_OneTransitionPerProject ==
    \A r, u \in Requests :
        (r /= u /\ RequestProject(r) = RequestProject(u))
        => ~(InFlight(r) /\ InFlight(u))

\* C25: while the call_ai of a request is outstanding, every unfinished
\* request for another project can take its next step.
C25_ProviderCallSuspends ==
    \A r, u \in Requests :
        (/\ loop.tasks[r].pc = "call_ai"
         /\ RequestProject(u) /= RequestProject(r)
         /\ loop.tasks[u].pc /= "done")
        => ENABLED RequestStep(u)

\* C26: a successful run of a stage transition that follows a successful
\* run of the same transition leaves the stage as the first run left it,
\* leaves every artifact slot empty or non-empty as the first run left it,
\* and leaves alone what the checks of the transition read (requirements
\* and ai_provider), so that both runs face the same checks.
C26_RerunKeepsStructure ==
    [][(/\ lastCall.op \in TransitionOps /\ lastCall.outcome = "success"
        /\ lastCall'.op = lastCall.op /\ lastCall'.outcome = "success")
       => \A i \in DOMAIN bmad_projects :
             /\ bmad_projects'[i]["status"] = bmad_projects[i]["status"]
             /\ bmad_projects'[i]["requirements"] = bmad_projects[i]["requirements"]
             /\ bmad_projects'[i]["ai_provider"] = bmad_projects[i]["ai_provider"]
             /\ \A slot \in ArtifactSlots :
                   Truthy(Artifact(bmad_projects'[i], slot))
                     <=> Truthy(Artifact(bmad_projects[i], slot))]_vars

\* C26 witness: generate_system_architecture has succeeded right after a
\* successful run of itself, on a project that holds refined requirements
C26_Witness ==
    \E i \in DOMAIN bmad_projects :
        /\ lastCall.op = "generate_system_architecture"
        /\ lastCall.outcome = "success"
        /\ lastCall.again
        /\ bmad_projects[i]["status"] = "System Architecture Complete"
        /\ Truthy(bmad_projects[i]["refined_requirements"])
        /\ Truthy(bmad_projects[i]["system_architecture"])

\* C27: analyze_requirements on a project whose requirements are empty or
\* hold whitespace only fails, makes no provider call and leaves the table,
\* and so the stage and every artifact, as it was.
C27_BlankRequirementsRefused ==
    [][\A i \in ProjectIds :
        (/\ Found(i)
         /\ lastCall'.op = "analyze_requirements"
         /\ Strip(bmad_projects[i]["requirements"]) = "")
        => /\ lastCall'.outcome = "failure"
           /\ lastCall'.network = 0
           /\ bmad_projects' = bmad_projects]_vars

\* C27 witness: analyze_requirements was refused without a provider call
\* on a project with whitespace-only requirements that holds an artifact
\* and a stage beyond draft
C27_Witness ==
    \E i \in DOMAIN bmad_projects :
        /\ lastCall.op = "analyze_requirements"
        /\ lastCall.outcome = "failure"
        /\ lastCall.network = 0
        /\ bmad_projects[i]["requirements"] = " "
        /\ bmad_projects[i]["ai_provider"] = "anthropic"
        /\ bmad_projects[i]["status"] = "System Architecture Complete"
        /\ Truthy(bmad_projects[i]["system_architecture"])

\* the two operations that create a project
CreateOps == {"create_project", "POST project"}

\* C28: the row a create operation has just inserted is in stage draft,
\* holds the requirements it was given and holds nothing in any artifact
\* slot.
C28_NewProjectIsDraft ==
    [][\A i \in ProjectIds :
        (lastCall'.op \in CreateOps /\ ~Found(i) /\ i \in DOMAIN bmad_projects')
        => /\ bmad_projects'[i]["status"] = "draft"
           /\ bmad_projects'[i]["requirements"] \in ReqTexts
           /\ \A slot \in ArtifactSlots :
                 Artifact(bmad_projects'[i], slot) = None]_vars

\* C28 witness: POST /api/v1/projects has just created a project
C28_Witness ==
    \E i \in DOMAIN bmad_projects :
        /\ lastCall.op = "POST project"
        /\ lastCall.outcome = "success"
        /\ bmad_projects[i]["requirements"] = "web site"
        /\ bmad_projects[i]["ai_provider"] = "cohere"
        /\ bmad_projects[i]["status"] = "draft"

\* the values _generate_ai_source_files has a branch for
BackendLanguages == {"Node.js", "Python", "None"}
FrontendFrameworks == {"React.js", "Vue.js", "Jekyll", "HTML/CSS", "HTML"}

NoRepeats(list) ==
    \A i, j \in DOMAIN list : i /= j => list[i] /= list[j]

\* the paths a sequence of tasks writes, in order
PathsOf(tasks) == [k \in DOMAIN tasks |-> tasks[k].file]

\* C31: within one run of generate_project the tasks still to run write
\* pairwise different paths, none of which a task of the run has written
\* already, and the list of created files the run returns holds no path
\* twice, whatever the index page links to.
C31_DisjointOutputs ==
    /\ NoRepeats(PathsOf(gen.todo))
    /\ \A k \in DOMAIN gen.todo :
          gen.todo[k].file \notin gen.attempted \ gen.failed
    /\ gen.pc = "done" => NoRepeats(gen.result.files_created)

\* the requirements analysis has gone through its sufficiency check on a
\* validation answer
Validated == parse.parser = "RA._validate_requirements_ai"

\* the analysis raised "Requirements are insufficient" on the answer
Rejected == Validated /\ parse.raised /= ""

\* the validation call failed, or answered what json.loads does not take,
\* or JSON without a "sufficient" field
Unusable(answer) ==
    \/ answer = Raised
    \/ JsonLoads(answer).err /= ""
    \/ JsonLoads(answer).sufficient = "absent"

\* the answer is a JSON object with the value v under "sufficient"
AnswersSufficient(answer, v) ==
    /\ answer /= Raised
    /\ JsonLoads(answer).err = ""
    /\ JsonLoads(answer).sufficient = v

\* C32: the sufficiency check is fail-open: on a validation call that
\* failed or answered no JSON or JSON without a "sufficient" field the
\* analysis goes on, and requirements that are not blank are rejected
\* exactly when the answer has false or null under "sufficient".
C32_FailOpen ==
    Validated =>
        /\ Unusable(parse.response) => ~Rejected
        /\ Rejected <=> \/ AnswersSufficient(parse.response, "false")
                        \/ AnswersSufficient(parse.response, "null")

\* C32 witness: the validation call raised and the analysis went on
C32_Witness ==
    Validated /\ parse.response = Raised /\ ~Rejected

\* C32 as stated: requirements that are not blank are rejected only on an
\* answer with false under "sufficient"
C32_OnlyExplicitFalseRejects ==
    Rejected => AnswersSufficient(parse.response, "false")

\* what a provider call returns when it returns text that is not blank
WellFormed(value) ==
    value \notin {Raised, None} /\ Truthy(Strip(value))

\* C33: on the way from Draft to ProjectGenerated, a generate_ux_design on
\* a project that has its refined requirements and its architecture and
\* an active registered provider, and whose provider call would return
\* text that is not blank, succeeds and leaves the stage UX Design
\* Complete.
C33_UxDesignStepSucceeds ==
    \A i \in DOMAIN bmad_projects :
        (/\ lastCall.op = "generate_ux_design"
         /\ lastCall.error /= "Project not found"
         /\ bmad_projects[i]["ai_provider"] \in ActiveProviderConfigs
         /\ Registered(_providers, bmad_projects[i]["ai_provider"])
         /\ Truthy(bmad_projects[i]["refined_requirements"])
         /\ Truthy(bmad_projects[i]["system_architecture"])
         /\ WellFormed(lastCall.offered))
        => /\ lastCall.outcome = "success"
           /\ bmad_projects[i]["status"] = "UX Design Complete"

\* the operations that assign None to project.ux_design before they commit
ClearsUxDesign == {"analyze_requirements", "generate_system_architecture"}

\* C34: after a transition that committed, the instance a fresh session
\* loads has the artifact values the transition assigned: the ux_design
\* that analyze_requirements and generate_system_architecture cleared and
\* generate_ux_design set is there for the precondition check of
\* generate_project to read, as are the refined requirements and the
\* architecture.
C34_FreshSessionReadsCommitted ==
    \A i \in DOMAIN bmad_projects :
        LET project == Load(bmad_projects[i]) IN
        /\ (lastCall.op \in ClearsUxDesign /\ lastCall.outcome = "success")
           => /\ HasAttr(project, "ux_design")
              /\ project["ux_design"] = None
              /\ GenerateProjectPrerequisites(project) /= "AttributeError"
        /\ (lastCall.op = "generate_ux_design" /\ lastCall.outcome = "success")
           => /\ HasAttr(project, "ux_design")
              /\ project["ux_design"] = lastCall.offered
        /\ (lastCall.op = "analyze_requirements" /\ lastCall.outcome = "success")
           => /\ Truthy(project["refined_requirements"])
              /\ project["system_architecture"] = None
        /\ (lastCall.op = "generate_system_architecture"
            /\ lastCall.outcome = "success")
           => project["system_architecture"] /= None

\* request r commits its Requirements transition in this step
RequirementsCommit(r) ==
    /\ loop.tasks[r].op = "analyze_requirements"
    /\ loop.tasks[r].pc = "commit"
    /\ loop'.tasks[r].outcome = "success"

\* C36: a Requirements transition that commits leaves the project in
\* Requirements Complete with the refined requirements and user stories
\* it derived only when the requirements text of the row is still the
\* text its analysis loaded, whatever edits committed while it was in
\* flight.
C36_NoStaleAnalysis ==
    [][\A r \in Requests :
          RequirementsCommit(r) =>
              bmad_projects'[RequestProject(r)]["requirements"]
                  = loop.tasks[r].project["requirements"]]_vars

\* the two operations that archive and unarchive
ArchiveOps == {"archive_project", "PATCH archive"}

\* C37: an archive or unarchive of a project, through the service or the
\* route, leaves every column of every row but the archived flag as it was
\* (the stage, the provider, the requirements and the artifacts among
\* them), and when it succeeds the flag is the one asked for.
C37_ArchiveChangesFlagOnly ==
    [][call'.op \in ArchiveOps =>
          /\ DOMAIN bmad_projects' = DOMAIN bmad_projects
          /\ \A i \in DOMAIN bmad_projects :
                /\ \A c \in Columns \ {"archived"} :
                      bmad_projects'[i][c] = bmad_projects[i][c]
                /\ lastCall'.outcome = "success"
                   => bmad_projects'[i]["archived"] = call'.archived]_vars

\* C37 witness: an archived project with its architecture has been
\* unarchived and is still in the stage System Architecture Complete
C37_Witness ==
    /\ call.op = "archive_project"
    /\ lastCall.outcome = "success"
    /\ call.was = "true"
    /\ call.archived = "false"
    /\ 1 \in DOMAIN bmad_projects
    /\ bmad_projects[1]["archived"] = "false"
    /\ bmad_projects[1]["status"] = "System Architecture Complete"
    /\ Truthy(bmad_projects[1]["system_architecture"])

\* the update sent does not change the requirements text of the row
KeepsRequirements(update_data, row) ==
    \/ update_data.requirements = Unset
    \/ update_data.requirements = row["requirements"]

\* C38: an update_project that omits the requirements or sends the text
\* stored leaves the stage, the artifacts, the requirements and the
\* archived flag as they were; name, description and provider change only
\* when they are sent, and then to the value sent.
C38_UpdateKeepsAnalysis ==
    [][\A i \in DOMAIN bmad_projects :
          (/\ call'.op = "update_project"
           /\ KeepsRequirements(call'.update_data, bmad_projects[i]))
          => /\ \A c \in Columns \ {"name", "description", "ai_provider"} :
                   bmad_projects'[i][c] = bmad_projects[i][c]
             /\ \A c \in {"name", "description", "ai_provider"} :
                   /\ bmad_projects'[i][c]
                         \in {bmad_projects[i][c], call'.update_data[c]}
                   /\ call'.update_data[c] = Unset
                      => bmad_projects'[i][c] = bmad_projects[i][c]
                   /\ (lastCall'.outcome = "success"
                       /\ call'.update_data[c] /= Unset)
                      => bmad_projects'[i][c] = call'.update_data[c]]_vars

\* C38 witness: an update that sent the stored requirements text and a new
\* name has succeeded on a project in Requirements Complete, which still
\* has its refined requirements
C38_Witness ==
    /\ call.op = "update_project"
    /\ lastCall.outcome = "success"
    /\ 1 \in DOMAIN bmad_projects
    /\ call.update_data.requirements = bmad_projects[1]["requirements"]
    /\ call.update_data.name = "store"
    /\ bmad_projects[1]["name"] = "store"
    /\ bmad_projects[1]["status"] = "Requirements Complete"
    /\ Truthy(bmad_projects[1]["refined_requirements"])

\* the files of the Node.js backend
NodeBackendFiles == {"server.js", ".env.example"}

\* C39: the config-file task and the source-file task of one run agree on
\* the backend language: package.json is among the files planned exactly
\* when the Node.js backend files are, and when the run has returned with
\* no failed provider call, package.json is in the project directory
\* exactly when server.js is.
C39_ConfigAndSourceAgree ==
    gen.planned /= <<>> =>
        /\ "package.json" \in FilesOf(gen.planned)
              <=> NodeBackendFiles \subseteq FilesOf(gen.planned)
        /\ (gen.pc = "done" /\ gen.failed = {})
              => ("package.json" \in DOMAIN gen.disk
                    <=> "server.js" \in DOMAIN gen.disk)

====
